---- MODULE Spec2Model ----
(***************************************************************************)
(* The script library of Orange's Python Script widget                     *)
(* (Orange/widgets/data/owpythonscript.py): Script entities, the filename  *)
(* resolver uniqueify_filename, the per-widget collection (libraryList),   *)
(* document cache and selection, and the process-wide ScriptStateManager   *)
(* signals that keep several open widgets consistent.                      *)
(*                                                                         *)
(* Further specifications cover the notification overlay                   *)
(* (Orange/canvas/utils/overlay.py), the widget's outputs and signature    *)
(* label, and the lift curve (Orange/widgets/evaluate/owliftcurve.py).     *)
(*                                                                         *)
(* The specifications share the variables:                                 *)
(*   Spec         widgets operating on the shared scripts folder           *)
(*   SpecScript   the Script class alone (no widget is open)               *)
(*   SpecFolder   the Script class while the scripts folder comes and goes *)
(*   SpecRename   widgets whose users only select, save and rename         *)
(*   SpecSession  one widget that is closed and opened again, and imports  *)
(*   SpecResolve  uniqueify_filename as a pure function of its arguments   *)
(*   SpecNotify   notifications that are constructed, shown and clicked    *)
(*   SpecButtons  the buttons of one notification's message widget         *)
(*   SpecOutputs  receive_outputs applied to the variables of a script     *)
(*   SpecSignature  the signature label for the inputs connected           *)
(*   SpecLift     the lift curve of evaluation results                     *)
(***************************************************************************)
EXTENDS Integers, Sequences, FiniteSets, TLC

VARIABLES
    disk,       \* the file system: the scripts folder and, by path, its files
    heap,       \* the Script objects: identity -> its fields
    nextId,     \* identity of the next Script object to be constructed
    widgets,    \* every OWPythonScript instance's fields
    conn,       \* ScriptStateManager: per signal, the connected widgets in order
    last,       \* the operation that ran last, and what it observed
    ops,        \* the number of operations run so far
    rcall,      \* SpecResolve: the arguments and result of the last resolver call
    notification_queue, \* NotificationWidget.notification_queue (overlay.py)
    notifs,     \* every NotificationWidget constructed: identity -> its fields
    fcall       \* the arguments and result of the last call of a function

vars == <<disk, heap, nextId, widgets, conn, last, ops, rcall,
          notification_queue, notifs, fcall>>

-----------------------------------------------------------------------------
(* Bounds of the model *)

\* Script objects that may ever be constructed (in Spec and SpecScript)
MaxId == 4
\* operations in a run (in Spec and SpecScript)
MaxOps == 5
\* Script objects constructed in SpecScript
MaxScripts == 1
\* entities in a collection handed to the resolver (SpecResolve)
MaxModel == 3
\* operations in a run of SpecRename
MaxRenameOps == 6
\* operations in a run of SpecSession
MaxSessionOps == 6
\* Script objects that may ever be constructed in SpecSession
MaxSessionId == 5
\* NotificationWidget objects constructed in SpecNotify
MaxNotifications == 3
\* buttons of the message widget in SpecButtons
MaxButtons == 3
\* values connected to one input of the widget in SpecSignature
MaxInputs == 2
\* test instances of the evaluation results in SpecLift
MaxRows == 3

-----------------------------------------------------------------------------
(* Program constants *)

SCRIPTS_FOLDER_PATH == "lib/"
DEFAULT_FILENAME == "scratch"
Modified == 1
MissingFromFilesystem == 2
HelloWorld == "print('Hello world!')"

\* Python's None (a path that was never set, no selection, no script)
None == "<None>"
NoRow == -1
NoScript == 0

Max(a, b) == IF a >= b THEN a ELSE b

-----------------------------------------------------------------------------
(* Strings *)

\* str.endswith
EndsWith(s, suffix) ==
    /\ Len(s) >= Len(suffix)
    /\ SubSeq(s, Len(s) - Len(suffix) + 1, Len(s)) = suffix

\* s[:-n]
DropLast(s, n) ==
    IF Len(s) <= n THEN "" ELSE SubSeq(s, 1, Len(s) - n)

\* os.path.join(SCRIPTS_FOLDER_PATH, filename)
JoinPath(filename) == SCRIPTS_FOLDER_PATH \o filename

\* os.path.basename of a path inside the scripts folder
Basename(path) ==
    IF Len(path) <= Len(SCRIPTS_FOLDER_PATH) THEN ""
    ELSE SubSeq(path, Len(SCRIPTS_FOLDER_PATH) + 1, Len(path))

-----------------------------------------------------------------------------
(* Script.flags is a bit mask *)

HasFlag(flags, bit) == (flags \div bit) % 2 = 1
SetFlag(flags, bit) == IF HasFlag(flags, bit) THEN flags ELSE flags + bit
ClearFlag(flags, bit) == IF HasFlag(flags, bit) THEN flags - bit ELSE flags

IsMissing(obj) == HasFlag(obj.flags, MissingFromFilesystem)
IsModified(obj) == HasFlag(obj.flags, Modified)

-----------------------------------------------------------------------------
(* The file system: a function from the paths that exist to their content.  *)
(* The scripts folder exists when SCRIPTS_FOLDER_PATH is one of the paths;  *)
(* a file exists only inside an existing folder.                            *)

\* os.path.exists(path)
Exists(d, path) == path \in DOMAIN d

\* os.makedirs(SCRIPTS_FOLDER_PATH)
MakeDirs(d) ==
    [p \in DOMAIN d \cup {SCRIPTS_FOLDER_PATH} |->
        IF p = SCRIPTS_FOLDER_PATH THEN "" ELSE d[p]]

\* the files of the scripts folder
Files(d) == DOMAIN d \ {SCRIPTS_FOLDER_PATH}

\* open(path, 'w').write(content)
FileWrite(d, path, content) ==
    [p \in DOMAIN d \cup {path} |-> IF p = path THEN content ELSE d[p]]

\* os.remove(path), the file exists
FileRemove(d, path) == [p \in DOMAIN d \ {path} |-> d[p]]

\* os.rename(old, new), old exists; an existing new is replaced
FileRename(d, old, new) ==
    [p \in (DOMAIN d \ {old}) \cup {new} |-> IF p = new THEN d[old] ELSE d[p]]

\* no scripts folder
NoFiles == [p \in {} |-> ""]

\* the scripts folder with no file in it
EmptyFolder == MakeDirs(NoFiles)

-----------------------------------------------------------------------------
(* Texts.  The editor's document holds no carriage return (QTextDocument      *)
(* turns every line break into a block), so the texts a widget hands to      *)
(* Script are free of them; a text given to Script directly, or a file       *)
(* written by another program, need not be.                                  *)

RECURSIVE UniversalNewlines(_)
\* open(path).read(): text mode turns "\r\n" and "\r" into "\n"
UniversalNewlines(text) ==
    IF text = "" THEN ""
    ELSE IF SubSeq(text, 1, 1) = "\r"
         THEN IF Len(text) >= 2 /\ SubSeq(text, 2, 2) = "\n"
              THEN "\n" \o UniversalNewlines(SubSeq(text, 3, Len(text)))
              ELSE "\n" \o UniversalNewlines(Tail(text))
         ELSE SubSeq(text, 1, 1) \o UniversalNewlines(Tail(text))

\* open(path).read() of an existing file
FileRead(d, path) == UniversalNewlines(d[path])

-----------------------------------------------------------------------------
(* The world the operations act on.  An operation is a function from world  *)
(* to world; raised is set when the operation ended by an exception, ret is *)
(* the value the last method returned, auto collects the Script objects     *)
(* that addScript() created without being given a text, sent the signals    *)
(* emitted and got the slot calls they led to, in order; docs the calls of   *)
(* documentForScript with the document each returned.                       *)

World ==
    [disk |-> disk, heap |-> heap, nextId |-> nextId, widgets |-> widgets,
     conn |-> conn, raised |-> FALSE, ret |-> TRUE, auto |-> {},
     sent |-> <<>>, got |-> <<>>, docs |-> <<>>]

Raise(W) == [W EXCEPT !.raised = TRUE]

-----------------------------------------------------------------------------
(* class Script *)

\* _save_script without the reset of the flags
Script_save_script_keepflags(W, s) ==
    LET full == JoinPath(W.heap[s].filename)
    IN  [W EXCEPT !.heap[s].fullname = full,
                  !.disk = FileWrite(W.disk, full, W.heap[s].script)]

\* Script._save_script; open(fullname, 'w') in a folder that does not exist
\* is FileNotFoundError
Script_save_script(W, s) ==
    LET full == JoinPath(W.heap[s].filename)
    IN  IF ~Exists(W.disk, SCRIPTS_FOLDER_PATH)
        THEN Raise([W EXCEPT !.heap[s].fullname = full])
        ELSE [W EXCEPT !.heap[s].fullname = full,
                       !.disk = FileWrite(W.disk, full, W.heap[s].script),
                       !.heap[s].flags =
                           ClearFlag(ClearFlag(@, Modified),
                                     MissingFromFilesystem)]

\* Script.__init__(script, filename, flags); the new object is W.nextId.
\* When _save_script raises, the caller gets no object.
Script_init(W, script, filename, flags) ==
    LET s == W.nextId
        obj == [script |-> script, filename |-> filename,
                fullname |-> None, flags |-> flags]
        W1 == [W EXCEPT !.heap = [i \in DOMAIN W.heap \cup {s} |->
                                     IF i = s THEN obj ELSE W.heap[i]],
                        !.nextId = s + 1]
        W2 == Script_save_script(W1, s)
    IN  IF HasFlag(flags, MissingFromFilesystem) THEN W1
        ELSE IF W2.raised THEN Raise(W)
        ELSE W2

\* a setter that writes only when the script is not missing
Script_set_script_guarded(W, s, script) ==
    LET W1 == [W EXCEPT !.heap[s].script = script]
    IN  IF IsMissing(W.heap[s]) THEN W1 ELSE Script_save_script(W1, s)

\* Script.script = script
Script_set_script(W, s, script) ==
    Script_save_script([W EXCEPT !.heap[s].script = script], s)

\* reload() that drops the content when the file is gone
Script_reload_clears(W, s) ==
    LET full == W.heap[s].fullname
    IN  IF full = None THEN Raise(W)
        ELSE IF ~Exists(W.disk, full)
        THEN [W EXCEPT !.heap[s].flags = MissingFromFilesystem,
                       !.heap[s].script = "", !.ret = FALSE]
        ELSE [W EXCEPT !.heap[s].script = FileRead(W.disk, full),
                       !.ret = TRUE]

\* Script.reload(); os.path.exists(None) is a TypeError
Script_reload(W, s) ==
    LET full == W.heap[s].fullname
    IN  IF full = None THEN Raise(W)
        ELSE IF ~Exists(W.disk, full)
        THEN [W EXCEPT !.heap[s].flags = MissingFromFilesystem, !.ret = FALSE]
        ELSE [W EXCEPT !.heap[s].script = FileRead(W.disk, full),
                       !.ret = TRUE]

\* refresh() that clears the modified flag when set_modified is False
Script_refresh_clearing(W, s, new_script, set_modified) ==
    IF W.heap[s].script # new_script
    THEN [W EXCEPT !.heap[s].flags =
                       IF set_modified THEN SetFlag(@, Modified)
                       ELSE ClearFlag(@, Modified),
                   !.heap[s].script = new_script]
    ELSE [W EXCEPT !.heap[s].flags = ClearFlag(@, Modified)]

\* Script.refresh(new_script, set_modified)
Script_refresh(W, s, new_script, set_modified) ==
    IF W.heap[s].script # new_script
    THEN [W EXCEPT !.heap[s].flags =
                       IF set_modified THEN SetFlag(@, Modified) ELSE @,
                   !.heap[s].script = new_script]
    ELSE [W EXCEPT !.heap[s].flags = ClearFlag(@, Modified)]

-----------------------------------------------------------------------------
(* uniqueify_filename *)

\* the filenames of the entities of model other than curr_script
script_names(h, model, curr_script) ==
    {h[model[i]].filename : i \in {j \in 1..Len(model) : model[j] # curr_script}}

\* the stem: a trailing '.py' removed, DEFAULT_FILENAME when nothing is left
resolver_stem(filename) ==
    LET stem == IF EndsWith(filename, ".py") THEN DropLast(filename, 3)
                ELSE filename
    IN  IF stem = "" THEN DEFAULT_FILENAME ELSE stem

RECURSIVE resolver_loop(_, _, _)
\* while True: name = stem_i.py; if name not in script_names: break; i += 1
resolver_loop(stem, names, i) ==
    LET name == stem \o "_" \o ToString(i) \o ".py"
    IN  IF name \notin names THEN name ELSE resolver_loop(stem, names, i + 1)

\* a resolver that never looks at the existing names
uniqueify_filename_nocheck(h, model, curr_script, filename) ==
    resolver_stem(filename) \o ".py"

\* a resolver whose numbering starts at _3
uniqueify_filename_from3(h, model, curr_script, filename) ==
    LET names == script_names(h, model, curr_script)
        stem == resolver_stem(filename)
        name == stem \o ".py"
    IN  IF name \in names THEN resolver_loop(stem, names, 3) ELSE name

\* a resolver that keeps an empty stem
uniqueify_filename_nodefault(h, model, curr_script, filename) ==
    LET names == script_names(h, model, curr_script)
        stem == IF EndsWith(filename, ".py") THEN DropLast(filename, 3)
                ELSE filename
        name == stem \o ".py"
    IN  IF name \in names THEN resolver_loop(stem, names, 2) ELSE name

uniqueify_filename(h, model, curr_script, filename) ==
    LET names == script_names(h, model, curr_script)
        stem == resolver_stem(filename)
        name == stem \o ".py"
    IN  IF name \in names THEN resolver_loop(stem, names, 2) ELSE name

-----------------------------------------------------------------------------
(* The widget: collection, selection, document cache *)

\* the widgets that may be opened
Widgets == {"w1", "w2"}

NoDocuments == [s \in {} |-> 0]

\* the fields of an OWPythonScript instance when __init__ reaches _restoreState
NewWidget ==
    [libraryList |-> <<>>,              \* itemmodels.PyListModel of Script
     cachedDocuments |-> NoDocuments,   \* Script -> QTextDocument
     documents |-> 0,                   \* QTextDocument objects constructed
     selected |-> NoRow,                \* the row selected in libraryView
     current |-> NoRow,                 \* libraryView's current index
     editorDoc |-> NoScript,            \* the Script whose document the editor shows
     restoreEnabled |-> FALSE,          \* restoreAction.isEnabled()
     load_error |-> None]               \* the file Error.load_error names

\* libraryList[row]
ScriptAt(W, w, row) == W.widgets[w].libraryList[row + 1]

RowCount(W, w) == Len(W.widgets[w].libraryList)

\* self.editor.text: the plain text of the editor's document
editor_text(W, w) ==
    LET wd == W.widgets[w]
    IN  IF wd.editorDoc = NoScript THEN ""
        ELSE wd.cachedDocuments[wd.editorDoc].text

\* QTextDocument(self); setPlainText(script.script); setModified(False).
\* The object is told apart by its widget and its number among the
\* documents that widget constructed.
NewDocument(W, w, s) ==
    [id |-> <<w, W.widgets[w].documents + 1>>,
     text |-> W.heap[s].script, modified |-> FALSE]

\* a documentForScript that builds a document on every call
documentForScript_nocache(W, w, s) ==
    LET doc == NewDocument(W, w, s)
    IN  [W EXCEPT !.widgets[w].cachedDocuments =
                      [x \in DOMAIN @ \cup {s} |-> IF x = s THEN doc ELSE @[x]],
                  !.widgets[w].documents = @ + 1,
                  !.docs = Append(@, <<w, s, doc.id>>)]

\* documentForScript(script): the cached document, built on first use
documentForScript(W, w, s) ==
    LET doc == NewDocument(W, w, s)
    IN  IF s \in DOMAIN W.widgets[w].cachedDocuments
        THEN [W EXCEPT !.docs =
                 Append(@, <<w, s, W.widgets[w].cachedDocuments[s].id>>)]
        ELSE [W EXCEPT !.widgets[w].cachedDocuments =
                          [x \in DOMAIN @ \cup {s} |->
                              IF x = s THEN doc ELSE @[x]],
                       !.widgets[w].documents = @ + 1,
                       !.docs = Append(@, <<w, s, doc.id>>)]

\* onSelectedScriptChanged with `row` newly selected
onSelectedScriptChanged(W, w, row) ==
    LET s == ScriptAt(W, w, row)
        W1 == documentForScript(W, w, s)
    IN  [W1 EXCEPT !.widgets[w].editorDoc = s,
                   !.widgets[w].restoreEnabled = ~IsMissing(W.heap[s])]

\* select_row(view, row): ClearAndSelect; selectionChanged fires only when
\* the selection changes, an invalid index clears the selection
select_row(W, w, row) ==
    IF row < 0 \/ row >= RowCount(W, w)
    THEN [W EXCEPT !.widgets[w].selected = NoRow]
    ELSE IF W.widgets[w].selected = row THEN W
    ELSE onSelectedScriptChanged(
            [W EXCEPT !.widgets[w].selected = row], w, row)

\* the user clicks a row of libraryView: it becomes current and selected
setCurrentIndex(W, w, row) ==
    select_row([W EXCEPT !.widgets[w].current = row], w, row)

\* an index of the view after `row` was removed
ShiftRow(i, row) == IF i = row THEN NoRow ELSE IF i > row THEN i - 1 ELSE i

\* del libraryList[row].  libraryView is in SingleSelection mode: when the
\* current index is removed and rows remain, the view makes the next row (the
\* previous one for the last row) current and selected before the removal;
\* the selection model then drops a removed row from the selection.
remove_row(W, w, row) ==
    LET n == RowCount(W, w)
        next == IF row + 1 < n THEN row + 1 ELSE row - 1
        W1 == IF W.widgets[w].current = row /\ n > 1
              THEN setCurrentIndex(W, w, next)
              ELSE W
        wd == W1.widgets[w]
    IN  [W1 EXCEPT !.widgets[w].libraryList =
                       [i \in 1..(n - 1) |->
                           IF i <= row THEN wd.libraryList[i]
                           ELSE wd.libraryList[i + 1]],
                   !.widgets[w].selected = ShiftRow(wd.selected, row),
                   !.widgets[w].current = ShiftRow(wd.current, row)]

\* libraryList.wrap(scripts): a model reset clears selection and current index
wrap(W, w, scripts) ==
    [W EXCEPT !.widgets[w].libraryList = scripts,
              !.widgets[w].selected = NoRow,
              !.widgets[w].current = NoRow]

\* libraryList.append(script)
append(W, w, s) ==
    [W EXCEPT !.widgets[w].libraryList = Append(@, s)]

\* addScript(text, filename) that always starts from an empty text
addScript_blank(W, w, text, filename) ==
    LET txt == IF text = None THEN "" ELSE text
        name == uniqueify_filename(W.heap, W.widgets[w].libraryList,
                                   NoScript, filename)
        W1 == Script_init(W, txt, name, MissingFromFilesystem)
        W2 == append(W1, w, W.nextId)
    IN  IF text = None THEN [W2 EXCEPT !.auto = @ \cup {W.nextId}] ELSE W2

\* addScript(text, filename) that writes the new script to the folder
addScript_saved(W, w, text, filename) ==
    LET txt == IF text = None THEN editor_text(W, w) ELSE text
        name == uniqueify_filename(W.heap, W.widgets[w].libraryList,
                                   NoScript, filename)
        W1 == Script_init(W, txt, name, 0)
        W2 == append(W1, w, W.nextId)
    IN  IF text = None THEN [W2 EXCEPT !.auto = @ \cup {W.nextId}] ELSE W2

\* addScript(text=None, filename=DEFAULT_FILENAME): without a text the
\* editor's text is taken; Script's default flags are MissingFromFilesystem
addScript(W, w, text, filename) ==
    LET txt == IF text = None THEN editor_text(W, w) ELSE text
        name == uniqueify_filename(W.heap, W.widgets[w].libraryList,
                                   NoScript, filename)
        W1 == Script_init(W, txt, name, MissingFromFilesystem)
        W2 == append(W1, w, W.nextId)
    IN  IF text = None THEN [W2 EXCEPT !.auto = @ \cup {W.nextId}] ELSE W2

\* the row of the first script of libraryList named filename, NoRow if none:
\* next(s for s in self.libraryList if s.filename == filename)
FirstNamed(W, w, filename) ==
    LET lst == W.widgets[w].libraryList
        hits == {i \in 1..Len(lst) : W.heap[lst[i]].filename = filename}
    IN  IF hits = {} THEN NoRow
        ELSE (CHOOSE i \in hits : \A j \in hits : i <= j) - 1

\* onModificationChanged that leaves a script flagged missing alone
onModificationChanged_exclusive(W, w, modified) ==
    LET row == W.widgets[w].selected
        s == ScriptAt(W, w, row)
    IN  IF row = NoRow THEN W
        ELSE IF IsMissing(W.heap[s]) THEN W
        ELSE [W EXCEPT !.heap[s].flags =
                  IF modified THEN SetFlag(@, Modified)
                  ELSE ClearFlag(@, Modified)]

\* onModificationChanged(modified): the flag of the selected script
onModificationChanged(W, w, modified) ==
    LET row == W.widgets[w].selected
        s == ScriptAt(W, w, row)
    IN  IF row = NoRow THEN W
        ELSE [W EXCEPT !.heap[s].flags =
                  IF modified THEN SetFlag(@, Modified)
                  ELSE ClearFlag(@, Modified)]

\* QTextDocument.setModified(m) of the editor's document; modificationChanged
\* is emitted when the value changes
editor_setModified(W, w, m) ==
    LET d == W.widgets[w].editorDoc
    IN  IF d = NoScript \/ W.widgets[w].cachedDocuments[d].modified = m THEN W
        ELSE onModificationChanged(
                [W EXCEPT !.widgets[w].cachedDocuments[d].modified = m], w, m)

\* the editor's document gets a new content (typing, or editor.text = text):
\* the document becomes modified
editor_setText(W, w, text) ==
    LET d == W.widgets[w].editorDoc
    IN  IF d = NoScript THEN W
        ELSE editor_setModified(
                [W EXCEPT !.widgets[w].cachedDocuments[d].text = text], w, TRUE)

-----------------------------------------------------------------------------
(* ScriptStateManager: the signals and the widgets' handlers.  A signal     *)
(* calls the connected slots one after the other, in connection order; an   *)
(* exception in a slot ends that slot only.                                 *)

Slot(W) == [W EXCEPT !.raised = FALSE]

\* the signals emitted and the slot calls made while an operation runs
Sent(W, signal) == [W EXCEPT !.sent = Append(@, signal)]
Got(W, call) == [W EXCEPT !.got = Append(@, call)]

\* the connections of a signal with widget w disconnected / connected last
Disconnected(order, w) == SelectSeq(order, LAMBDA x : x # w)
Connected(order, w) == Append(order, w)

RECURSIVE Script_set_filename(_, _, _)

\* _handleScriptRenamed(old_filename, new_filename)
handleScriptRenamed(W, w, old_filename, new_filename) ==
    LET row == FirstNamed(W, w, old_filename)
    IN  IF row = NoRow THEN W
        ELSE Script_set_filename(W, ScriptAt(W, w, row), new_filename)

RECURSIVE EmitRenamedTo(_, _, _, _, _)
EmitRenamedTo(W, order, k, old_filename, new_filename) ==
    IF k > Len(order) THEN W
    ELSE EmitRenamedTo(
            Slot(handleScriptRenamed(
                    Got(W, <<"scriptRenamed", order[k], old_filename,
                             new_filename>>),
                    order[k], old_filename, new_filename)),
            order, k + 1, old_filename, new_filename)

\* script_state_manager.scriptRenamed.emit(old_filename, filename)
EmitRenamed(W, old_filename, new_filename) ==
    EmitRenamedTo(Sent(W, <<"scriptRenamed", old_filename, new_filename>>),
                  W.conn.scriptRenamed, 1, old_filename, new_filename)

\* a filename setter without the test for an unchanged name
Script_set_filename_always(W, s, filename) ==
    LET obj == W.heap[s]
        W1 == [W EXCEPT !.heap[s].filename = filename]
        W2 == [W1 EXCEPT !.heap[s].fullname = JoinPath(filename)]
    IN  IF IsMissing(obj) THEN W1
        ELSE IF obj.fullname = None THEN Raise(W2)
        ELSE IF Exists(W2.disk, obj.fullname)
        THEN EmitRenamed(
                [W2 EXCEPT !.disk = FileRename(@, obj.fullname,
                                               JoinPath(filename))],
                obj.filename, filename)
        ELSE W2

\* a filename setter that renames without looking for the file first
Script_set_filename_raising(W, s, filename) ==
    LET obj == W.heap[s]
        W1 == [W EXCEPT !.heap[s].filename = filename]
        W2 == [W1 EXCEPT !.heap[s].fullname = JoinPath(filename)]
    IN  IF obj.filename = filename THEN W
        ELSE IF IsMissing(obj) THEN W1
        ELSE IF obj.fullname = None THEN Raise(W2)
        ELSE IF Exists(W2.disk, obj.fullname)
        THEN EmitRenamed(
                [W2 EXCEPT !.disk = FileRename(@, obj.fullname,
                                               JoinPath(filename))],
                obj.filename, filename)
        ELSE Raise(W2)

\* Script.filename = filename
Script_set_filename(W, s, filename) ==
    LET obj == W.heap[s]
        W1 == [W EXCEPT !.heap[s].filename = filename]
        W2 == [W1 EXCEPT !.heap[s].fullname = JoinPath(filename)]
    IN  IF obj.filename = filename THEN W
        ELSE IF IsMissing(obj) THEN W1
        ELSE IF obj.fullname = None THEN Raise(W2)
        ELSE IF Exists(W2.disk, obj.fullname)
        THEN EmitRenamed(
                [W2 EXCEPT !.disk = FileRename(@, obj.fullname,
                                               JoinPath(filename))],
                obj.filename, filename)
        ELSE W2

\* _handleScriptRemoved(filename); next() without a match is StopIteration
handleScriptRemoved(W, w, filename) ==
    LET row == FirstNamed(W, w, filename)
        s == ScriptAt(W, w, row)
        W1 == remove_row(W, w, row)
    IN  IF row = NoRow THEN Raise(W)
        ELSE IF s \in DOMAIN W.widgets[w].cachedDocuments
        THEN [W EXCEPT !.heap[s].flags = SetFlag(@, MissingFromFilesystem)]
        ELSE IF RowCount(W1, w) = 0
        THEN select_row(addScript(W1, w, None, DEFAULT_FILENAME), w, 0)
        ELSE W1

RECURSIVE EmitRemovedTo(_, _, _, _)
EmitRemovedTo(W, order, k, filename) ==
    IF k > Len(order) THEN W
    ELSE EmitRemovedTo(
            Slot(handleScriptRemoved(
                    Got(W, <<"scriptRemoved", order[k], filename>>),
                    order[k], filename)),
            order, k + 1, filename)

\* _handleScriptSaved(filename, new_script_text)
handleScriptSaved(W, w, filename, new_script_text) ==
    LET row == FirstNamed(W, w, filename)
        s == ScriptAt(W, w, row)
        W1 == IF row = NoRow THEN W
              ELSE Script_set_filename(W, s,
                      uniqueify_filename(W.heap, W.widgets[w].libraryList,
                                         NoScript, filename))
    IN  IF row # NoRow /\ ~IsMissing(W.heap[s])
        THEN Script_refresh(W, s, new_script_text,
                            s \in DOMAIN W.widgets[w].cachedDocuments)
        ELSE IF W1.raised THEN W1
        ELSE IF Script_init(W1, new_script_text, filename, 0).raised
        THEN Raise(W1)
        ELSE append(Script_init(W1, new_script_text, filename, 0),
                    w, W1.nextId)

RECURSIVE EmitSavedTo(_, _, _, _, _)
EmitSavedTo(W, order, k, filename, text) ==
    IF k > Len(order) THEN W
    ELSE EmitSavedTo(
            Slot(handleScriptSaved(
                    Got(W, <<"scriptSaved", order[k], filename, text>>),
                    order[k], filename, text)),
            order, k + 1, filename, text)

-----------------------------------------------------------------------------
(* OWPythonScript: the operations behind the widget's actions *)

\* glob.glob(SCRIPTS_FOLDER_PATH + '*.py'): the matching paths, in any order
GlobOrders(d) ==
    LET found == {p \in Files(d) : EndsWith(p, ".py")}
    IN  {ps \in [1..Cardinality(found) -> found] :
            \A i, j \in 1..Cardinality(found) : i # j => ps[i] # ps[j]}

RECURSIVE LoadScripts(_, _, _)
\* for pathname in script_paths:
\*     scripts += [Script(f.read(), os.path.basename(pathname), flags=0)]
\* ret is the list of the Script objects made
LoadScripts(W, paths, k) ==
    IF k > Len(paths) THEN W
    ELSE LoadScripts(
            [Script_init(W, FileRead(W.disk, paths[k]), Basename(paths[k]), 0)
                EXCEPT !.ret = Append(W.ret, W.nextId)],
            paths, k + 1)

\* the settings of a widget that was never saved: current_script = None
\* (here the empty tuple), other_scratch_scripts = []
DefaultSettings == [current_script |-> <<>>, other_scratch_scripts |-> <<>>]

RECURSIVE AddScratchScripts(_, _, _, _)
\* for script in self.other_scratch_scripts:
\*     self.addScript(text=script[0], filename=script[1])
AddScratchScripts(W, w, pairs, k) ==
    IF k > Len(pairs) THEN W
    ELSE AddScratchScripts(addScript(W, w, pairs[k][1], pairs[k][2]),
                           w, pairs, k + 1)

\* _restoreState; a folder that does not exist is made and not searched
restoreState(W, w, settings, paths) ==
    LET W1 == LoadScripts([W EXCEPT !.ret = <<>>, !.disk = MakeDirs(@)],
                          paths, 1)
        scripts == W1.ret
        W2 == wrap(W1, w, scripts)
        cur == settings.current_script
        found == {k \in 1..Len(scripts) :
                     /\ W1.heap[scripts[k]].script = cur[1]
                     /\ W1.heap[scripts[k]].filename = cur[2]}
        W3 == IF cur = <<>> THEN addScript(W2, w, HelloWorld, DEFAULT_FILENAME)
              ELSE IF found # {} THEN W2
              ELSE addScript(W2, w, cur[1], cur[2])
        i == IF cur # <<>> /\ found # {}
             THEN (CHOOSE k \in found : \A j \in found : k <= j) - 1
             ELSE RowCount(W3, w) - 1
        W4 == AddScratchScripts(W3, w, settings.other_scratch_scripts, 1)
    IN  select_row([W4 EXCEPT !.ret = TRUE], w, i)

\* __init__: the three handlers are connected, then _restoreState
init(W, w, settings, paths) ==
    restoreState(
        [W EXCEPT !.widgets = [x \in DOMAIN @ \cup {w} |->
                                  IF x = w THEN NewWidget ELSE @[x]],
                  !.conn = [scriptRemoved |-> Connected(@.scriptRemoved, w),
                            scriptSaved |-> Connected(@.scriptSaved, w),
                            scriptRenamed |-> Connected(@.scriptRenamed, w)]],
        w, settings, paths)

\* the (script, filename) pairs of the rows of libraryList from row k on that
\* are flagged missing and are not row index
RECURSIVE ScratchPairs(_, _, _, _)
ScratchPairs(W, w, index, k) ==
    LET s == ScriptAt(W, w, k)
        rest == ScratchPairs(W, w, index, k + 1)
    IN  IF k >= RowCount(W, w) THEN <<>>
        ELSE IF IsMissing(W.heap[s]) /\ k # index
        THEN <<(<<W.heap[s].script, W.heap[s].filename>>)>> \o rest
        ELSE rest

\* _saveState; ret is the settings it stores.  libraryList[None], with no
\* row selected, is TypeError
saveState(W, w) ==
    LET index == W.widgets[w].selected
    IN  IF index = NoRow THEN Raise(W)
        ELSE [W EXCEPT !.ret =
                [current_script |->
                     <<editor_text(W, w),
                       W.heap[ScriptAt(W, w, index)].filename>>,
                 other_scratch_scripts |-> ScratchPairs(W, w, index, 0)]]

\* onDeleteWidget: the three handlers are disconnected, the instance is gone
onDeleteWidget(W, w) ==
    [W EXCEPT !.widgets = [x \in DOMAIN @ \ {w} |-> @[x]],
              !.conn = [scriptRemoved |-> Disconnected(@.scriptRemoved, w),
                        scriptSaved |-> Disconnected(@.scriptSaved, w),
                        scriptRenamed |-> Disconnected(@.scriptRenamed, w)]]

\* the workflow is saved and closed, and opened again: _saveState packs the
\* settings, the instance is deleted, a new one is made from the settings
reopen(W, w, paths) ==
    LET W1 == saveState(W, w)
    IN  IF W1.raised THEN W1
        ELSE init(onDeleteWidget(W1, w), w, W1.ret, paths)

\* onAddScript
onAddScript(W, w) ==
    LET W1 == addScript(W, w, "", DEFAULT_FILENAME)
    IN  select_row(W1, w, RowCount(W1, w) - 1)

\* what open(filename).read() of a file to import gives when it fails
Unreadable == "<OSError or ValueError>"

\* addScriptFromFile that adds an empty script for a file it cannot read
addScriptFromFile_adding(W, w, file) ==
    LET contents == IF file.content = Unreadable THEN ""
                    ELSE UniversalNewlines(file.content)
        W1 == addScript(W, w, contents, file.name)
    IN  IF ~EndsWith(file.name, ".py") THEN W
        ELSE select_row(W1, w, RowCount(W1, w) - 1)

\* addScriptFromFile(filename) for a file with this base name and content
addScriptFromFile(W, w, file) ==
    LET W1 == addScript(W, w, UniversalNewlines(file.content), file.name)
    IN  IF ~EndsWith(file.name, ".py") THEN W
        ELSE IF file.content = Unreadable
        THEN [W EXCEPT !.widgets[w].load_error = file.name]
        ELSE select_row(W1, w, RowCount(W1, w) - 1)

\* ScriptItemDelegate.setModelData for the row under edit
setModelData(W, w, row, text) ==
    LET s == ScriptAt(W, w, row)
    IN  Script_set_filename(W, s,
            uniqueify_filename(W.heap, W.widgets[w].libraryList, s, text))

\* removeScript that removes the file and emits whatever the flags are
removeScript_unflagged(W, w, index) ==
    LET s == ScriptAt(W, w, index)
        path == JoinPath(W.heap[s].filename)
        W1 == remove_row(W, w, index)
        others == Disconnected(W1.conn.scriptRemoved, w)
        W2 == [EmitRemovedTo(
                  Sent([W1 EXCEPT !.disk = FileRemove(@, path)],
                       <<"scriptRemoved", W.heap[s].filename>>),
                  others, 1, W.heap[s].filename)
                EXCEPT !.conn.scriptRemoved = Connected(others, w)]
        W3 == IF RowCount(W2, w) = 0
              THEN addScript(W2, w, None, DEFAULT_FILENAME)
              ELSE W2
    IN  IF ~Exists(W1.disk, path) THEN Raise(W1)
        ELSE select_row(W3, w, Max(index - 1, 0))

\* removeScript(index); os.remove of a file that is gone is FileNotFoundError
removeScript(W, w, index) ==
    LET s == ScriptAt(W, w, index)
        path == JoinPath(W.heap[s].filename)
        W1 == remove_row(W, w, index)
        others == Disconnected(W1.conn.scriptRemoved, w)
        W2 == IF IsMissing(W1.heap[s]) THEN W1
              ELSE [EmitRemovedTo(
                        Sent([W1 EXCEPT !.disk = FileRemove(@, path)],
                             <<"scriptRemoved", W.heap[s].filename>>),
                        others, 1, W.heap[s].filename)
                      EXCEPT !.conn.scriptRemoved = Connected(others, w)]
        W3 == IF RowCount(W2, w) = 0
              THEN addScript(W2, w, None, DEFAULT_FILENAME)
              ELSE W2
    IN  IF ~IsMissing(W1.heap[s]) /\ ~Exists(W1.disk, path) THEN Raise(W1)
        ELSE select_row(W3, w, Max(index - 1, 0))

\* commitChangesToLibrary that stays connected while it emits
commitChangesToLibrary_connected(W, w) ==
    LET index == W.widgets[w].selected
        s == ScriptAt(W, w, index)
        text == editor_text(W, w)
        W1 == Script_set_script(
                [W EXCEPT !.widgets[w].restoreEnabled = TRUE], s, text)
        W2 == EmitSavedTo(
                  Sent(W1, <<"scriptSaved", W1.heap[s].filename, text>>),
                  W1.conn.scriptSaved, 1, W1.heap[s].filename, text)
    IN  IF index = NoRow THEN W
        ELSE IF W1.raised THEN W1
        ELSE editor_setModified(W2, w, FALSE)

\* commitChangesToLibrary
commitChangesToLibrary(W, w) ==
    LET index == W.widgets[w].selected
        s == ScriptAt(W, w, index)
        text == editor_text(W, w)
        W1 == Script_set_script(
                [W EXCEPT !.widgets[w].restoreEnabled = TRUE], s, text)
        others == Disconnected(W1.conn.scriptSaved, w)
        W2 == [EmitSavedTo(
                  Sent(W1, <<"scriptSaved", W1.heap[s].filename, text>>),
                  others, 1, W1.heap[s].filename, text)
                  EXCEPT !.conn.scriptSaved = Connected(others, w)]
    IN  IF index = NoRow THEN W
        ELSE IF W1.raised THEN W1
        ELSE editor_setModified(W2, w, FALSE)

\* restoreSaved
restoreSaved(W, w) ==
    LET index == W.widgets[w].selected
        s == ScriptAt(W, w, index)
        W1 == Script_reload(W, s)
        W2 == [W1 EXCEPT !.widgets[w].restoreEnabled = W1.ret]
        W3 == editor_setModified(
                editor_setText(W2, w, W2.heap[s].script), w, FALSE)
    IN  IF index = NoRow THEN W
        ELSE IF W1.raised THEN W1
        ELSE [W3 EXCEPT !.heap[s].flags = ClearFlag(@, Modified)]

\* the scripts of libraryList flagged MissingFromFilesystem, in order
MissingScripts(W, w) ==
    SelectSeq(W.widgets[w].libraryList, LAMBDA s : IsMissing(W.heap[s]))

\* reloadLibrary that keeps no script from before
reloadLibrary_dropmissing(W, w, paths) ==
    LET W1 == LoadScripts([W EXCEPT !.ret = <<>>, !.disk = MakeDirs(@)],
                          paths, 1)
        scripts == W1.ret
        W2 == wrap([W1 EXCEPT !.ret = TRUE], w, scripts)
        W3 == IF scripts = <<>>
              THEN addScript(W2, w, None, DEFAULT_FILENAME)
              ELSE W2
    IN  select_row(W3, w, 0)

\* reloadLibrary that forgets the documents of the scripts it drops
reloadLibrary_purging(W, w, paths) ==
    LET W1 == LoadScripts([W EXCEPT !.ret = <<>>, !.disk = MakeDirs(@)],
                          paths, 1)
        scripts == W1.ret \o MissingScripts(W1, w)
        W2 == wrap([W1 EXCEPT !.ret = TRUE], w, scripts)
        W3 == IF scripts = <<>>
              THEN addScript(W2, w, None, DEFAULT_FILENAME)
              ELSE W2
        W4 == select_row(W3, w, 0)
        lib == W4.widgets[w].libraryList
        held == {lib[i] : i \in 1..Len(lib)}
    IN  [W4 EXCEPT !.widgets[w].cachedDocuments =
                       [s \in DOMAIN @ \cap held |-> @[s]]]

\* reloadLibrary; a folder that does not exist is made and not searched
reloadLibrary(W, w, paths) ==
    LET W1 == LoadScripts([W EXCEPT !.ret = <<>>, !.disk = MakeDirs(@)],
                          paths, 1)
        scripts == W1.ret \o MissingScripts(W1, w)
        W2 == wrap([W1 EXCEPT !.ret = TRUE], w, scripts)
        W3 == IF scripts = <<>>
              THEN addScript(W2, w, None, DEFAULT_FILENAME)
              ELSE W2
    IN  select_row(W3, w, 0)

-----------------------------------------------------------------------------
(* SpecResolve: the resolver applied to bounded collections and candidates *)

\* filenames the entities of a collection may carry
ResolveNames == {"a.py", "a_2.py", "b.py", "scratch.py", "a.txt.py"}
\* candidate filenames handed to the resolver
ResolveInputs == {"a", "a.py", "b", "", ".py", "a.txt", "a_2", "a.py.py"}

NoWidgets == [w \in {} |-> 0]

NoConnections ==
    [scriptRemoved |-> <<>>, scriptSaved |-> <<>>, scriptRenamed |-> <<>>]

\* no NotificationWidget was constructed and no function was called
NoOverlay ==
    /\ notification_queue = <<>>
    /\ notifs = <<>>
    /\ fcall = [op |-> "none"]

\* `last` before any operation
NoOperation ==
    [op |-> "init", w |-> None, s |-> NoScript, arg |-> None, flags0 |-> 0,
     raised |-> FALSE, ret |-> TRUE, auto |-> {}, pre |-> None,
     sent |-> <<>>, got |-> <<>>, docs |-> <<>>]

ResolveInit ==
    /\ disk = NoFiles
    /\ nextId \in 1..(MaxModel + 1)
    /\ heap \in [1..(nextId - 1) ->
                    [script : {""}, filename : ResolveNames,
                     fullname : {None}, flags : {MissingFromFilesystem}]]
    /\ widgets = NoWidgets
    /\ conn = NoConnections
    /\ last = NoOperation
    /\ ops = 0
    /\ rcall = [model |-> [i \in 1..(nextId - 1) |-> i],
                curr |-> NoScript, filename |-> "", name |-> None]
    /\ NoOverlay

\* one call uniqueify_filename(model, curr_script, filename)
Resolve ==
    \E curr \in {NoScript} \cup (1..(nextId - 1)), f \in ResolveInputs :
        /\ rcall' = [rcall EXCEPT !.curr = curr, !.filename = f,
                        !.name = uniqueify_filename(heap, rcall.model, curr, f)]
        /\ UNCHANGED <<disk, heap, nextId, widgets, conn, last, ops,
                       notification_queue, notifs, fcall>>

ResolveNext == Resolve

SpecResolve == ResolveInit /\ [][ResolveNext]_vars

-----------------------------------------------------------------------------
(* Spec: widgets on the shared scripts folder *)

\* texts the user types into the editor
TypedTexts == {"2"}
\* names the user types into the list's name editor
TypedNames == {"scratch_2", "b"}

NotCalled == [model |-> <<>>, curr |-> NoScript, filename |-> "", name |-> None]

\* what `last` holds: the operation, its widget, the script it was about and
\* that script's flags before, whether it raised, what it returned, the
\* scripts addScript() made from the editor's text, the signals, slot calls
\* and documentForScript calls
Record(W, op, w, s) ==
    [op |-> op, w |-> w, s |-> s, arg |-> None,
     flags0 |-> IF s \in DOMAIN heap THEN heap[s].flags ELSE 0,
     raised |-> W.raised, ret |-> W.ret, auto |-> W.auto, pre |-> None,
     sent |-> W.sent, got |-> W.got, docs |-> W.docs]

\* the world becomes W
Becomes(W, rec) ==
    /\ ops' = ops + 1
    /\ disk' = W.disk
    /\ heap' = W.heap
    /\ nextId' = W.nextId
    /\ widgets' = W.widgets
    /\ conn' = W.conn
    /\ last' = rec
    /\ rcall' = rcall
    /\ UNCHANGED <<notification_queue, notifs, fcall>>

\* an operation of widget w, about script s, takes the world W0 to W
Does(W, op, w, s) == Becomes(W, Record(W, op, w, s))

Init ==
    /\ disk = NoFiles
    /\ heap = <<>>
    /\ nextId = 1
    /\ widgets = NoWidgets
    /\ conn = NoConnections
    /\ last = NoOperation
    /\ ops = 0
    /\ rcall = NotCalled
    /\ NoOverlay

Open == DOMAIN widgets

SelectedScript(w) ==
    IF widgets[w].selected = NoRow THEN NoScript
    ELSE widgets[w].libraryList[widgets[w].selected + 1]

\* widget w is opened
ConstructWidget(w) ==
    \E paths \in GlobOrders(disk) :
        Does(init(World, w, DefaultSettings, paths), "__init__", w, NoScript)

\* a widget is opened
Construct ==
    \E w \in Widgets \ Open : ConstructWidget(w)

\* the user clicks a row of the list
ClickRow ==
    \E w \in Open :
        \E row \in 0..(Len(widgets[w].libraryList) - 1) :
            /\ ~(row = widgets[w].selected /\ row = widgets[w].current)
            /\ Does(setCurrentIndex(World, w, row), "click", w,
                       widgets[w].libraryList[row + 1])

\* the user types in the editor
EditText ==
    \E w \in Open, text \in TypedTexts :
        /\ widgets[w].editorDoc # NoScript
        /\ text # editor_text(World, w)
        /\ Does(editor_setText(World, w, text), "edit", w,
                   widgets[w].editorDoc)

\* action Add
AddScript ==
    \E w \in Open :
        Does(onAddScript(World, w), "onAddScript", w, nextId)

\* files the user picks in the file dialog or drops on the widget
ImportFiles ==
    {[name |-> "b.py", content |-> "3\r\n"],
     [name |-> "b.py", content |-> Unreadable],
     [name |-> "b.txt", content |-> "3"]}

\* the user opens a file, or drops one on the widget
AddScriptFromFile ==
    \E w \in Open, file \in ImportFiles :
        LET W == addScriptFromFile(World, w, file)
        IN  Becomes(W, [Record(W, "addScriptFromFile", w, NoScript)
                           EXCEPT !.arg = file])

\* the user renames the selected script in the list
Rename ==
    \E w \in Open, text \in TypedNames :
        /\ widgets[w].selected # NoRow
        /\ Does(setModelData(World, w, widgets[w].selected, text),
                   "setModelData", w, SelectedScript(w))

\* action Delete, confirmed
RemoveScript ==
    \E w \in Open :
        /\ widgets[w].selected # NoRow
        /\ Does(removeScript(World, w, widgets[w].selected),
                   "removeScript", w, SelectedScript(w))

\* action Save
Save ==
    \E w \in Open :
        /\ widgets[w].selected # NoRow
        /\ Does(commitChangesToLibrary(World, w),
                   "commitChangesToLibrary", w, SelectedScript(w))

\* action Restore (only while it is enabled)
Restore ==
    \E w \in Open :
        /\ widgets[w].restoreEnabled
        /\ widgets[w].selected # NoRow
        /\ Does(restoreSaved(World, w), "restoreSaved", w,
                   SelectedScript(w))

\* action Reload Library
ReloadLibrary ==
    \E w \in Open, paths \in GlobOrders(disk) :
        Does(reloadLibrary(World, w, paths), "reloadLibrary", w, NoScript)

\* another program deletes a file of the scripts folder
ExternalDelete ==
    \E path \in Files(disk) :
        Does([World EXCEPT !.disk = FileRemove(@, path)],
             "ExternalDelete", None, NoScript)

\* no more than maxOps operations run and no more than maxId Script objects
\* are ever made
Within(maxOps, maxId) == ops' <= maxOps /\ nextId' <= maxId + 1

Next ==
    \/ Construct /\ Within(MaxOps, MaxId)
    \/ ClickRow /\ Within(MaxOps, MaxId)
    \/ EditText /\ Within(MaxOps, MaxId)
    \/ AddScript /\ Within(MaxOps, MaxId)
    \/ Rename /\ Within(MaxOps, MaxId)
    \/ RemoveScript /\ Within(MaxOps, MaxId)
    \/ Save /\ Within(MaxOps, MaxId)
    \/ Restore /\ Within(MaxOps, MaxId)
    \/ ReloadLibrary /\ Within(MaxOps, MaxId)
    \/ ExternalDelete /\ Within(MaxOps, MaxId)

Spec == Init /\ [][Next]_vars

-----------------------------------------------------------------------------
(* SpecRename: the widgets of Spec, used only to select, save and rename,   *)
(* which leaves room for longer runs                                        *)

RenameNext ==
    \/ Construct /\ Within(MaxRenameOps, MaxId)
    \/ ClickRow /\ Within(MaxRenameOps, MaxId)
    \/ Rename /\ Within(MaxRenameOps, MaxId)
    \/ Save /\ Within(MaxRenameOps, MaxId)

SpecRename == Init /\ [][RenameNext]_vars

-----------------------------------------------------------------------------
(* SpecSession: one widget over several sessions of the workflow; its user  *)
(* selects, edits, adds, imports and saves scripts, closes the workflow     *)
(* and opens it again                                                       *)

\* the session's widget
SessionWidget == "w1"

\* the widget is opened
ConstructFirst ==
    /\ Open = {}
    /\ ConstructWidget(SessionWidget)

\* the workflow is closed and opened again; arg is what _saveState stored
Reopen ==
    \E w \in Open, paths \in GlobOrders(disk) :
        LET W == reopen(World, w, paths)
        IN  Becomes(W, [Record(W, "reopen", w, SelectedScript(w))
                           EXCEPT !.arg = saveState(World, w).ret])

SessionNext ==
    \/ ConstructFirst /\ Within(MaxSessionOps, MaxSessionId)
    \/ ClickRow /\ Within(MaxSessionOps, MaxSessionId)
    \/ EditText /\ Within(MaxSessionOps, MaxSessionId)
    \/ AddScript /\ Within(MaxSessionOps, MaxSessionId)
    \/ AddScriptFromFile /\ Within(MaxSessionOps, MaxSessionId)
    \/ Save /\ Within(MaxSessionOps, MaxSessionId)
    \/ Reopen /\ Within(MaxSessionOps, MaxSessionId)

SpecSession == Init /\ [][SessionNext]_vars

-----------------------------------------------------------------------------
(* SpecScript: Script objects used directly, with no widget open *)

\* contents given to a Script
ScriptTexts == {"1", "1\r2"}
\* filenames given to a Script
ScriptNames == {"a.py", "b.py"}
\* what another program writes into the scripts folder
ExternalTexts == {"1\r\n2"}

Scripts == DOMAIN heap

\* `last` of a Script method called with arg
RecordS(W, op, s, arg) == [Record(W, op, None, s) EXCEPT !.arg = arg]

\* the scripts folder exists (a widget has made it), no Script does
ScriptInit ==
    /\ disk = EmptyFolder
    /\ heap = <<>>
    /\ nextId = 1
    /\ widgets = NoWidgets
    /\ conn = NoConnections
    /\ last = NoOperation
    /\ ops = 0
    /\ rcall = NotCalled
    /\ NoOverlay

\* Script(script, filename, flags)
NewScript ==
    \E text \in ScriptTexts, name \in ScriptNames,
       flags \in {0, MissingFromFilesystem} :
        /\ nextId <= MaxScripts
        /\ LET W == Script_init(World, text, name, flags)
           IN  Becomes(W, [RecordS(W, "Script.__init__", nextId, text)
                              EXCEPT !.flags0 = flags])

\* script.script = text
SetScript ==
    \E s \in Scripts, text \in ScriptTexts :
        LET W == Script_set_script(World, s, text)
        IN  Becomes(W, RecordS(W, "Script.script", s, text))

\* script.filename = name; pre is the filename before
SetFilename ==
    \E s \in Scripts, name \in ScriptNames :
        LET W == Script_set_filename(World, s, name)
        IN  Becomes(W, [RecordS(W, "Script.filename", s, name)
                           EXCEPT !.pre = heap[s].filename])

\* script.reload(); pre is the method that ran before it
Reload ==
    \E s \in Scripts :
        LET W == Script_reload(World, s)
        IN  Becomes(W, [RecordS(W, "Script.reload", s, None)
                           EXCEPT !.pre = <<last.op, last.s, last.arg>>])

\* script.refresh(text, set_modified)
Refresh ==
    \E s \in Scripts, text \in ScriptTexts, set_modified \in BOOLEAN :
        Becomes(Script_refresh(World, s, text, set_modified),
                RecordS(World, "Script.refresh", s, <<text, set_modified>>))

\* another program writes a file of the scripts folder
ExternalWrite ==
    \E name \in ScriptNames, text \in ExternalTexts :
        /\ Exists(disk, SCRIPTS_FOLDER_PATH)
        /\ Exists(disk, JoinPath(name)) => disk[JoinPath(name)] # text
        /\ Does([World EXCEPT !.disk = FileWrite(@, JoinPath(name), text)],
                "ExternalWrite", None, NoScript)

ScriptNext ==
    \/ NewScript /\ Within(MaxOps, MaxId)
    \/ SetScript /\ Within(MaxOps, MaxId)
    \/ SetFilename /\ Within(MaxOps, MaxId)
    \/ Reload /\ Within(MaxOps, MaxId)
    \/ Refresh /\ Within(MaxOps, MaxId)
    \/ ExternalDelete /\ Within(MaxOps, MaxId)
    \/ ExternalWrite /\ Within(MaxOps, MaxId)

SpecScript == ScriptInit /\ [][ScriptNext]_vars

-----------------------------------------------------------------------------
(* SpecFolder: Script objects while another program removes and makes the   *)
(* scripts folder                                                           *)

\* another program removes the scripts folder and all that is in it
RemoveFolder ==
    /\ Exists(disk, SCRIPTS_FOLDER_PATH)
    /\ Does([World EXCEPT !.disk = NoFiles], "RemoveFolder", None, NoScript)

\* another program makes the scripts folder
MakeFolder ==
    /\ ~Exists(disk, SCRIPTS_FOLDER_PATH)
    /\ Does([World EXCEPT !.disk = MakeDirs(@)], "MakeFolder", None, NoScript)

FolderNext ==
    \/ NewScript /\ Within(MaxOps, MaxId)
    \/ SetScript /\ Within(MaxOps, MaxId)
    \/ SetFilename /\ Within(MaxOps, MaxId)
    \/ Reload /\ Within(MaxOps, MaxId)
    \/ Refresh /\ Within(MaxOps, MaxId)
    \/ ExternalDelete /\ Within(MaxOps, MaxId)
    \/ ExternalWrite /\ Within(MaxOps, MaxId)
    \/ RemoveFolder /\ Within(MaxOps, MaxId)
    \/ MakeFolder /\ Within(MaxOps, MaxId)

SpecFolder == ScriptInit /\ [][FolderNext]_vars

-----------------------------------------------------------------------------
(* The notification overlay (Orange/canvas/utils/overlay.py):               *)
(* NotificationMessageWidget's buttons and NotificationWidget's queue.      *)

\* NotificationMessageWidget.StandardButton and ButtonRole
NoButton == 0
Ok == 1
Close == 2
InvalidRole == 0
AcceptRole == 1
RejectRole == 2
DismissRole == 3
\* the order in which Python iterates the enum StandardButton
StandardButton == <<NoButton, Ok, Close>>
\* Python's None as a slot's stdbutton and as the result of button()
NoStdButton == -1
NoQButton == 0

\* a & b and a | b on two-bit masks
BitAnd(a, b) ==
    (IF a % 2 = 1 /\ b % 2 = 1 THEN 1 ELSE 0)
    + (IF (a \div 2) % 2 = 1 /\ (b \div 2) % 2 = 1 THEN 2 ELSE 0)
BitOr(a, b) ==
    (IF a % 2 = 1 \/ b % 2 = 1 THEN 1 ELSE 0)
    + (IF (a \div 2) % 2 = 1 \/ (b \div 2) % 2 = 1 THEN 2 ELSE 0)

\* notifications and message widgets are operated on in a record of the
\* class attribute, the objects and whether the call raised
Overlay ==
    [queue |-> notification_queue, notifs |-> notifs, raised |-> FALSE]

Buttons(O, n) == O.notifs[n]._buttons

\* the identity of a QPushButton constructed now
NewButton(B) ==
    CHOOSE k \in 1..(Len(B) + 1) :
        /\ \A i \in 1..Len(B) : B[i].button # k
        /\ \A j \in 1..(k - 1) : \E i \in 1..Len(B) : B[i].button = j

\* NotificationMessageWidget.button(standardButton)
button(B, standardButton) ==
    LET slots == SelectSeq(B, LAMBDA slot : slot.stdbutton = standardButton)
    IN  IF slots = <<>> THEN NoQButton ELSE slots[1].button

\* NotificationMessageWidget.buttonRole(button)
buttonRole(B, b) ==
    LET slots == SelectSeq(B, LAMBDA slot : slot.button = b)
    IN  IF slots = <<>> THEN InvalidRole ELSE slots[1].role

\* addButton(StandardButton): NoButton leaves `role` unbound
\* (UnboundLocalError at the append)
addButton(O, n, stdbutton) ==
    LET B == Buttons(O, n)
        role == IF stdbutton = Ok THEN AcceptRole ELSE RejectRole
        slot == [button |-> NewButton(B), role |-> role,
                 stdbutton |-> stdbutton]
    IN  IF stdbutton \notin {Ok, Close} THEN Raise(O)
        ELSE [O EXCEPT !.notifs[n]._buttons = Append(B, slot)]

\* addButton(str, role)
addTextButton(O, n, role) ==
    LET B == Buttons(O, n)
        slot == [button |-> NewButton(B), role |-> role,
                 stdbutton |-> NoStdButton]
    IN  [O EXCEPT !.notifs[n]._buttons = Append(B, slot)]

\* removeButton(button): the first slot of that button, if any
removeButton(O, n, b) ==
    LET B == Buttons(O, n)
        at == {i \in 1..Len(B) : B[i].button = b}
        first == CHOOSE i \in at : \A j \in at : i <= j
    IN  IF at = {} THEN O
        ELSE [O EXCEPT !.notifs[n]._buttons =
                 SubSeq(B, 1, first - 1) \o SubSeq(B, first + 1, Len(B))]

\* one round of the loop of setStandardButtons
setStandardButton(O, n, buttons, stdbutton) ==
    LET existing == button(Buttons(O, n), stdbutton)
    IN  IF BitAnd(stdbutton, buttons) # 0 /\ existing = NoQButton
        THEN addButton(O, n, stdbutton)
        ELSE IF existing # NoQButton THEN removeButton(O, n, existing)
        ELSE O

RECURSIVE setStandardButtonsFrom(_, _, _, _)
setStandardButtonsFrom(O, n, buttons, k) ==
    IF k > Len(StandardButton) THEN O
    ELSE setStandardButtonsFrom(
             setStandardButton(O, n, buttons, StandardButton[k]),
             n, buttons, k + 1)

\* NotificationMessageWidget.setStandardButtons(buttons)
setStandardButtons(O, n, buttons) == setStandardButtonsFrom(O, n, buttons, 1)

RECURSIVE IorFrom(_, _)
IorFrom(B, k) ==
    IF k > Len(B) THEN NoButton
    ELSE IF B[k].stdbutton = NoStdButton THEN IorFrom(B, k + 1)
    ELSE BitOr(B[k].stdbutton, IorFrom(B, k + 1))

\* NotificationMessageWidget.standardButtons()
standardButtons(B) == IorFrom(B, 1)

\* NotificationWidget(standardButtons=...): not shown, not queued; its
\* message widget sets the buttons. wasDisplayed observes display for the
\* properties, the program does not keep it.
NotificationWidget_init(O, n, buttons) ==
    setStandardButtons(
        [O EXCEPT !.notifs = (n :> [visible |-> FALSE, msgwidget |-> TRUE,
                                    _buttons |-> <<>>,
                                    wasDisplayed |-> FALSE]) @@ @],
        n, buttons)

\* QWidget.show() and hide() of the notification
display(O, n) ==
    [O EXCEPT !.notifs[n].visible = TRUE, !.notifs[n].wasDisplayed = TRUE]
hide(O, n) == [O EXCEPT !.notifs[n].visible = FALSE]

InQueue(q, n) == \E i \in 1..Len(q) : q[i] = n

\* show that displays the notification whatever the queue holds
show_displaying(O, n) ==
    LET O1 == [O EXCEPT !.queue = Append(@, n)]
    IN  IF InQueue(O.queue, n) THEN O
        ELSE display(O1, n)

\* NotificationWidget.show
show(O, n) ==
    LET O1 == [O EXCEPT !.queue = Append(@, n)]
    IN  IF InQueue(O.queue, n) THEN O
        ELSE IF Len(O1.queue) = 1 THEN display(O1, n)
        ELSE O1

\* NotificationWidget._next_notif; list.pop() takes the last element and
\* raises IndexError on an empty list
next_notif(O) ==
    LET q == O.queue
        current == q[Len(q)]
        O1 == hide([O EXCEPT !.queue = SubSeq(q, 1, Len(q) - 1)], current)
    IN  IF q = <<>> THEN Raise(O)
        ELSE IF O1.queue # <<>> THEN display(O1, O1.queue[1])
        ELSE O1

\* NotificationMessageWidget._button_clicked for button b of n: clicked
\* reaches NotificationWidget.clicked and with it _next_notif; the message
\* widget closes itself on the accept and the reject role
button_clicked(O, n, b) ==
    LET role == buttonRole(Buttons(O, n), b)
        O1 == next_notif(O)
    IN  IF role \in {AcceptRole, RejectRole}
        THEN [O1 EXCEPT !.notifs[n].msgwidget = FALSE]
        ELSE O1

\* a click on _dismiss_button: dismissed, then dismiss_handler emits clicked
dismiss_clicked(O, n) == next_notif(O)

-----------------------------------------------------------------------------
(* SpecNotify: notifications that are constructed, shown and clicked *)

NotificationNames == <<"n1", "n2", "n3", "n4">>
Notifications == {NotificationNames[i] : i \in 1..MaxNotifications}
Constructed == DOMAIN notifs
\* the standardButtons a notification is constructed with
ButtonSets == {NoButton, BitOr(Ok, Close)}

\* the overlay becomes O; `last` holds the call, its notification, the role
\* of the button clicked and the queue before
OverlayBecomes(O, op, n, role) ==
    /\ notification_queue' = O.queue
    /\ notifs' = O.notifs
    /\ last' = [NoOperation EXCEPT !.op = op, !.w = n, !.arg = role,
                                   !.raised = O.raised,
                                   !.pre = notification_queue]
    /\ UNCHANGED <<disk, heap, nextId, widgets, conn, ops, rcall, fcall>>

RoleName(role) ==
    CASE role = AcceptRole -> "accept"
      [] role = RejectRole -> "reject"
      [] role = DismissRole -> "dismiss"
      [] OTHER -> "invalid"

\* NotificationWidget(standardButtons=buttons)
NotifConstruct ==
    \E n \in Notifications \ Constructed, buttons \in ButtonSets :
        OverlayBecomes(NotificationWidget_init(Overlay, n, buttons),
                       "__init__", n, None)

\* n.show()
NotifShow ==
    \E n \in Constructed : OverlayBecomes(show(Overlay, n), "show", n, None)

\* the user clicks a button of the message widget of a displayed notification
ClickButton ==
    \E n \in Constructed :
        \E i \in 1..Len(notifs[n]._buttons) :
            /\ notifs[n].visible
            /\ notifs[n].msgwidget
            /\ OverlayBecomes(
                   button_clicked(Overlay, n, notifs[n]._buttons[i].button),
                   "clicked", n, RoleName(notifs[n]._buttons[i].role))

\* the user clicks the dismiss button of a displayed notification
ClickDismiss ==
    \E n \in Constructed :
        /\ notifs[n].visible
        /\ OverlayBecomes(dismiss_clicked(Overlay, n), "clicked", n,
                          RoleName(DismissRole))

NotifyNext ==
    \/ NotifConstruct
    \/ NotifShow
    \/ ClickButton
    \/ ClickDismiss

SpecNotify == Init /\ [][NotifyNext]_vars

-----------------------------------------------------------------------------
(* SpecButtons: the buttons of one notification's message widget *)

TheMessage == "n1"

\* the message widget becomes that of O; `last` holds the call, its
\* argument and the result of standardButtons() before
ButtonsBecome(O, op, arg) ==
    /\ notification_queue' = O.queue
    /\ notifs' = O.notifs
    /\ last' = [NoOperation EXCEPT
                   !.op = op, !.w = TheMessage, !.arg = arg,
                   !.raised = O.raised,
                   !.pre = IF TheMessage \in Constructed
                           THEN standardButtons(notifs[TheMessage]._buttons)
                           ELSE NoButton]
    /\ UNCHANGED <<disk, heap, nextId, widgets, conn, ops, rcall, fcall>>

\* NotificationWidget(standardButtons=buttons)
MessageConstruct ==
    \E buttons \in 0..3 :
        /\ TheMessage \notin Constructed
        /\ ButtonsBecome(NotificationWidget_init(Overlay, TheMessage, buttons),
                         "__init__", buttons)

\* setStandardButtons(buttons)
SetStandardButtons ==
    \E buttons \in 0..3 :
        /\ TheMessage \in Constructed
        /\ ButtonsBecome(setStandardButtons(Overlay, TheMessage, buttons),
                         "setStandardButtons", buttons)

\* addButton(StandardButton)
AddButton ==
    \E stdbutton \in {NoButton, Ok, Close} :
        /\ TheMessage \in Constructed
        /\ Len(notifs[TheMessage]._buttons) < MaxButtons
        /\ ButtonsBecome(addButton(Overlay, TheMessage, stdbutton),
                         "addButton", stdbutton)

\* addButton(str, role)
AddTextButton ==
    \E role \in {AcceptRole, DismissRole} :
        /\ TheMessage \in Constructed
        /\ Len(notifs[TheMessage]._buttons) < MaxButtons
        /\ ButtonsBecome(addTextButton(Overlay, TheMessage, role),
                         "addButton", NoStdButton)

\* removeButton(button) for a button of the widget
RemoveButton ==
    \E i \in 1..MaxButtons :
        /\ TheMessage \in Constructed
        /\ i <= Len(notifs[TheMessage]._buttons)
        /\ ButtonsBecome(
               removeButton(Overlay, TheMessage,
                            notifs[TheMessage]._buttons[i].button),
               "removeButton", notifs[TheMessage]._buttons[i].button)

ButtonsNext ==
    \/ MessageConstruct
    \/ SetStandardButtons
    \/ AddButton
    \/ AddTextButton
    \/ RemoveButton

SpecButtons == Init /\ [][ButtonsNext]_vars

-----------------------------------------------------------------------------
(* The outputs of a script run (OWPythonScript.receive_outputs) *)

signal_names == <<"data", "learner", "classifier", "object">>

\* the classes of the values a script may leave in its variables, each with
\* the classes it derives from
Bases(class) ==
    CASE class = "Table" -> {"Table", "object"}
      [] class = "DataFrame" -> {"DataFrame", "object"}
      [] class = "TreeLearner" -> {"TreeLearner", "Learner", "object"}
      [] class = "TreeModel" -> {"TreeModel", "Model", "object"}
      [] class = "NoneType" -> {"NoneType", "object"}
      [] OTHER -> {class, "object"}

\* a value of a class; Python's None is the value of NoneType
Value(class) == [class |-> class]
PyNone == Value("NoneType")

isinstance(var, type) == type \in Bases(var.class)

\* Outputs.<signal>.type
OutputType(signal) ==
    CASE signal = "data" -> "Table"
      [] signal = "learner" -> "Learner"
      [] signal = "classifier" -> "Model"
      [] signal = "object" -> "object"

\* pandas_compat.table_from_frame(df): a Table made from the frame
table_from_frame(df) == [class |-> "Table", frame |-> df]

\* ReturnStatement.update_signal_text(signal_name, values_length)
ReturnLabel(signal, values_length, df_enabled) ==
    LET name == IF signal = "data" /\ df_enabled THEN "df" ELSE signal
    IN  IF values_length = 0 THEN "<b></b>" \o "out_" \o name
        ELSE "<b>" \o "out_" \o name \o "</b>"

\* a round of receive_outputs that sends a variable of any type
receive_output_untyped(o, out_vars, orangeDataTablesEnabled, signal) ==
    LET df == signal = "data" /\ ~orangeDataTablesEnabled
        out_name == IF df THEN "out_df" ELSE "out_" \o signal
        none == [o EXCEPT
                    !.labels[signal] =
                        ReturnLabel(signal, 0, ~orangeDataTablesEnabled),
                    !.sent = Append(@, <<signal, PyNone>>)]
    IN  IF out_name \notin DOMAIN out_vars THEN none
        ELSE [o EXCEPT
                 !.labels[signal] =
                     ReturnLabel(signal, 1, ~orangeDataTablesEnabled),
                 !.sent = Append(@, <<signal,
                              IF df THEN table_from_frame(out_vars[out_name])
                              ELSE out_vars[out_name]>>)]

\* one round of the loop of receive_outputs; o holds what was sent, the
\* warnings raised and the labels of the return statement
receive_output(o, out_vars, orangeDataTablesEnabled, signal) ==
    LET df == signal = "data" /\ ~orangeDataTablesEnabled
        out_name == IF df THEN "out_df" ELSE "out_" \o signal
        req_type == IF df THEN "DataFrame" ELSE OutputType(signal)
        var == out_vars[out_name]
        none == [o EXCEPT
                    !.labels[signal] =
                        ReturnLabel(signal, 0, ~orangeDataTablesEnabled),
                    !.sent = Append(@, <<signal, PyNone>>)]
    IN  IF out_name \notin DOMAIN out_vars THEN none
        ELSE IF ~isinstance(var, req_type)
        THEN [none EXCEPT !.warnings =
                 Append(@, <<out_name, req_type, var.class>>)]
        ELSE [o EXCEPT
                 !.labels[signal] =
                     ReturnLabel(signal, 1, ~orangeDataTablesEnabled),
                 !.sent = Append(@, <<signal,
                              IF req_type = "DataFrame"
                              THEN table_from_frame(var) ELSE var>>)]

RECURSIVE receive_outputs_from(_, _, _, _)
receive_outputs_from(o, out_vars, orangeDataTablesEnabled, k) ==
    IF k > Len(signal_names) THEN o
    ELSE receive_outputs_from(
             receive_output(o, out_vars, orangeDataTablesEnabled,
                            signal_names[k]),
             out_vars, orangeDataTablesEnabled, k + 1)

\* the labels of the return statement as make_signal_labels leaves them
InitialLabels(df_enabled) ==
    [signal \in {signal_names[k] : k \in 1..Len(signal_names)} |->
        ReturnLabel(signal, 0, df_enabled)]

\* receive_outputs(out_vars)
receive_outputs(out_vars, orangeDataTablesEnabled) ==
    receive_outputs_from(
        [sent |-> <<>>, warnings |-> <<>>,
         labels |-> InitialLabels(~orangeDataTablesEnabled)],
        out_vars, orangeDataTablesEnabled, 1)

-----------------------------------------------------------------------------
(* SpecOutputs: receive_outputs applied to the variables of a script *)

OutNames == {"out_data", "out_df", "out_learner", "out_classifier",
             "out_object"}
\* what a script may leave in a variable
OutValues ==
    {Value("Table"), Value("DataFrame"), Value("TreeLearner"),
     Value("TreeModel"), PyNone}
\* the scripts' variables: every assignment of values to some of the names
OutVars ==
    UNION {[names -> OutValues] : names \in SUBSET OutNames}

OutputsInit ==
    /\ disk = NoFiles
    /\ heap = <<>>
    /\ nextId = 1
    /\ widgets = NoWidgets
    /\ conn = NoConnections
    /\ last = NoOperation
    /\ ops = 0
    /\ rcall = NotCalled
    /\ notification_queue = <<>>
    /\ notifs = <<>>
    /\ \E out_vars \in OutVars, orangeDataTablesEnabled \in BOOLEAN :
           fcall = [op |-> "none", out_vars |-> out_vars,
                    orangeDataTablesEnabled |-> orangeDataTablesEnabled]

\* the console hands the variables of the finished script to the widget
ReceiveOutputs ==
    /\ fcall.op = "none"
    /\ fcall' = [fcall EXCEPT !.op = "receive_outputs"] @@
                receive_outputs(fcall.out_vars, fcall.orangeDataTablesEnabled)
    /\ UNCHANGED <<disk, heap, nextId, widgets, conn, last, ops, rcall,
                   notification_queue, notifs>>

OutputsNext == ReceiveOutputs

SpecOutputs == OutputsInit /\ [][OutputsNext]_vars

-----------------------------------------------------------------------------
(* The signature label above the editor (FunctionSignature) *)

\* the colours the highlighting scheme gives to keywords, function names
\* and punctuation
KeywordColor == "#008000"
FunctionColor == "#0000ff"
PunctuationColor == "#666666"

signal_prefix == "in_"

\* FunctionSignature.prefix: `def python_script(`
prefix ==
    "<b style=\"color: " \o KeywordColor \o ";\">def </b>"
    \o "<span style=\"color: " \o FunctionColor \o ";\">"
    \o "python_script" \o "</span>"
    \o "<span style=\"color: " \o PunctuationColor \o ";\">(</span>"

\* FunctionSignature.affix: `):`
affix == "<span style=\"color: " \o PunctuationColor \o ";\">):</span>"

\* the loop over signal_values_lengths.items(), a sequence of <<name, value>>
RECURSIVE SignalTexts(_, _)
SignalTexts(items, k) ==
    IF k > Len(items) THEN ""
    ELSE (IF items[k][2] = 1 THEN signal_prefix \o items[k][1] \o ", "
          ELSE IF items[k][2] > 1
          THEN signal_prefix \o items[k][1] \o "s, "
          ELSE "")
         \o SignalTexts(items, k + 1)

\* FunctionSignature.update_signal_text(signal_values_lengths): the text of
\* the label; lbl_text[:-2] drops the last two characters of what is there
update_signal_text(items) ==
    LET lbl_text == prefix \o SignalTexts(items, 1)
        shaved == IF Len(items) > 0
                  THEN SubSeq(lbl_text, 1, Max(Len(lbl_text) - 2, 0))
                  ELSE lbl_text
    IN  shaved \o affix

\* OWPythonScript.update_fake_function_signature_labels: counts holds, per
\* input signal, the number of values connected
update_fake_function_signature_labels(counts, orangeDataTablesEnabled) ==
    update_signal_text(
        [k \in 1..Len(signal_names) |->
            <<IF signal_names[k] = "data" /\ ~orangeDataTablesEnabled
              THEN "df" ELSE signal_names[k],
              counts[k]>>])

-----------------------------------------------------------------------------
(* SpecSignature: the signature label for the inputs connected *)

SignatureInit ==
    /\ disk = NoFiles
    /\ heap = <<>>
    /\ nextId = 1
    /\ widgets = NoWidgets
    /\ conn = NoConnections
    /\ last = NoOperation
    /\ ops = 0
    /\ rcall = NotCalled
    /\ notification_queue = <<>>
    /\ notifs = <<>>
    /\ \E counts \in [1..Len(signal_names) -> 0..MaxInputs],
          orangeDataTablesEnabled \in BOOLEAN :
           fcall = [op |-> "none", counts |-> counts,
                    orangeDataTablesEnabled |-> orangeDataTablesEnabled]

\* FunctionSignature.__init__ ends with update_signal_text({})
SignatureConstruct ==
    /\ fcall.op = "none"
    /\ fcall' = [fcall EXCEPT !.op = "__init__"] @@
                [text |-> update_signal_text(<<>>)]
    /\ UNCHANGED <<disk, heap, nextId, widgets, conn, last, ops, rcall,
                   notification_queue, notifs>>

\* the widget refreshes the label for the inputs it has
UpdateSignature ==
    /\ fcall.op = "__init__"
    /\ fcall' = [fcall EXCEPT
                    !.op = "update_signal_text",
                    !.text = update_fake_function_signature_labels(
                                 fcall.counts, fcall.orangeDataTablesEnabled)]
    /\ UNCHANGED <<disk, heap, nextId, widgets, conn, last, ops, rcall,
                   notification_queue, notifs>>

SignatureNext ==
    \/ SignatureConstruct
    \/ UpdateSignature

SpecSignature == SignatureInit /\ [][SignatureNext]_vars

-----------------------------------------------------------------------------
(* The lift curve (Orange/widgets/evaluate/owliftcurve.py) *)

\* a[slice(start, stop)] of a sequence, for start >= 0; a negative stop
\* counts from the end
PySlice(a, start, stop) ==
    LET n == Len(a)
        hi == IF stop < 0 THEN Max(n + stop, 0)
              ELSE IF stop > n THEN n ELSE stop
    IN  SubSeq(a, start + 1, hi)

\* the default of lift_curve_from_results' parameter subset: slice(0, -1)
DefaultSubset == [start |-> 0, stop |-> -1]

\* np.sum(ytrue == target)
CountOf(ytrue, target) ==
    Cardinality({i \in 1..Len(ytrue) : ytrue[i] = target})

\* lift_curve(ytrue, ypred, target): empty arrays when the rates are
\* undefined; otherwise rpp and tpr are computed from
\* sklearn.metrics.roc_curve(ytrue, ypred, pos_label=target), kept here as
\* the call that is made
lift_curve(ytrue, ypred, target) ==
    LET P == CountOf(ytrue, target)
        N == Len(ytrue) - P
    IN  IF P = 0 \/ N = 0
        THEN [empty |-> TRUE, ytrue |-> ytrue, ypred |-> ypred,
              P |-> P, N |-> N]
        ELSE [empty |-> FALSE, ytrue |-> ytrue, ypred |-> ypred,
              P |-> P, N |-> N]

\* results.probabilities[clf_idx][rows][:, target]: a row holds the
\* probability of class 1 in tenths, class 0 has the rest
ScoresOf(probabilities, target) ==
    [i \in 1..Len(probabilities) |->
        IF target = 1 THEN probabilities[i] ELSE 10 - probabilities[i]]

\* lift_curve_from_results(results, target, clf_idx, subset)
lift_curve_from_results(results, target, subset) ==
    LET actual == PySlice(results.actual, subset.start, subset.stop)
        scores == ScoresOf(PySlice(results.probabilities,
                                   subset.start, subset.stop), target)
    IN  lift_curve(actual, scores, target)

\* liftCurve_from_results(results, clf_index, target): the points are valid
\* when they are not empty
liftCurve_from_results(results, target) ==
    LET curve == lift_curve_from_results(results, target, DefaultSubset)
    IN  curve @@ [is_valid |-> ~curve.empty]

-----------------------------------------------------------------------------
(* SpecLift: the lift curve of evaluation results *)

\* evaluation results of one classifier on n test instances of two classes
Results(n) ==
    [actual : [1..n -> {0, 1}], probabilities : [1..n -> {2, 7}]]

LiftInit ==
    /\ disk = NoFiles
    /\ heap = <<>>
    /\ nextId = 1
    /\ widgets = NoWidgets
    /\ conn = NoConnections
    /\ last = NoOperation
    /\ ops = 0
    /\ rcall = NotCalled
    /\ notification_queue = <<>>
    /\ notifs = <<>>
    /\ \E n \in 0..MaxRows, target \in {0, 1} :
        \E results \in Results(n) :
           fcall = [op |-> "none", results |-> results, target |-> target]

\* the widget plots the curve of the classifier for the target
LiftCurve ==
    /\ fcall.op = "none"
    /\ fcall' = [fcall EXCEPT !.op = "liftCurve_from_results"] @@
                liftCurve_from_results(fcall.results, fcall.target)
    /\ UNCHANGED <<disk, heap, nextId, widgets, conn, last, ops, rcall,
                   notification_queue, notifs>>

LiftNext == LiftCurve

SpecLift == LiftInit /\ [][LiftNext]_vars

-----------------------------------------------------------------------------
(* Properties of the widgets (Spec) *)

Library(w) == widgets[w].libraryList

\* C1: no two distinct Script entities of one widget's libraryList have the
\* same filename, in every reachable state
C1_UniqueFilenames ==
    \A w \in Open :
        \A i, j \in 1..Len(Library(w)) :
            i # j => heap[Library(w)[i]].filename # heap[Library(w)[j]].filename

\* C5: once a widget is constructed its libraryList holds at least one Script
\* at the end of every operation
C5_NeverEmpty ==
    \A w \in Open : Len(Library(w)) >= 1

\* C6 as stated: a Script that is created because a collection became empty
\* has the empty text as its content
C6_AutoCreatedIsBlank ==
    \A s \in last.auto : heap[s].script = ""

\* C6, amended: a Script that is created because a collection became empty is
\* appended to that widget's libraryList flagged MissingFromFilesystem, and
\* its content is the text the widget's editor held when the operation began
C6_AutoCreatedHasEditorText ==
    [][\A s \in last'.auto :
          \E w \in DOMAIN widgets :
              /\ \E i \in 1..Len(widgets'[w].libraryList) :
                     widgets'[w].libraryList[i] = s
              /\ heap'[s].script = editor_text(World, w)
              /\ IsMissing(heap'[s])]_vars

\* a collection became empty and the Script created for it is not blank
C6_Witness ==
    \E s \in last.auto : heap[s].script # "" /\ last.op = "removeScript"

\* C7: when a widget's libraryList is non-empty, a row is selected and it is a
\* row of the list
C7_SelectionValid ==
    \A w \in Open :
        Len(Library(w)) >= 1 =>
            widgets[w].selected \in 0..(Len(Library(w)) - 1)

\* C9: after commitChangesToLibrary the saved script is clean: its file holds
\* exactly the saved text and neither flag is set
C9_SaveEndsClean ==
    (last.op = "commitChangesToLibrary" /\ last.s # NoScript) =>
        LET obj == heap[last.s]
            path == JoinPath(obj.filename)
        IN  /\ ~last.raised
            /\ obj.script = editor_text(World, last.w)
            /\ Exists(disk, path)
            /\ disk[path] = obj.script
            /\ ~IsModified(obj)
            /\ ~IsMissing(obj)

\* a Missing script was saved, and a Modified one
C9_Witness ==
    /\ last.op = "commitChangesToLibrary"
    /\ last.s # NoScript
    /\ HasFlag(last.flags0, MissingFromFilesystem)
    /\ HasFlag(last.flags0, Modified)
    /\ Exists(disk, JoinPath(heap[last.s].filename))

-----------------------------------------------------------------------------
(* Properties of the resolver (SpecResolve) *)

Called == rcall.name # None

\* the filenames of the entities of the collection other than the renamed one
OtherNames ==
    {heap[rcall.model[i]].filename :
        i \in {j \in 1..Len(rcall.model) : rcall.model[j] # rcall.curr}}

Suffixed(stem, k) == stem \o "_" \o ToString(k) \o ".py"

\* name is stem.py or stem_k.py for some k >= 2
IsNameOf(stem, name) ==
    \/ name = stem \o ".py"
    \/ \E k \in 2..(Len(rcall.model) + 2) : name = Suffixed(stem, k)

\* the candidate without a trailing '.py', 'scratch' if nothing is left
PyStem(filename) ==
    LET stem == IF EndsWith(filename, ".py")
                THEN SubSeq(filename, 1, Len(filename) - 3)
                ELSE filename
    IN  IF stem = "" THEN "scratch" ELSE stem

\* the candidate without its extension, whatever it is (the text from the
\* last period on), 'scratch' if nothing is left
AnyExtensionStem(filename) ==
    LET dots == {i \in 1..Len(filename) : SubSeq(filename, i, i) = "."}
        cut == IF dots = {} THEN Len(filename) + 1
               ELSE CHOOSE i \in dots : \A j \in dots : j <= i
        stem == IF cut = 1 THEN "" ELSE SubSeq(filename, 1, cut - 1)
    IN  IF stem = "" THEN "scratch" ELSE stem

\* C2: the name uniqueify_filename returns differs from the filename of every
\* entity of the collection other than the one being renamed
C2_ResolvedNameIsFree ==
    Called => rcall.name \notin OtherNames

\* the candidate's plain name was taken by another entity
C2_Witness ==
    /\ Called
    /\ rcall.curr # NoScript
    /\ (PyStem(rcall.filename) \o ".py") \in OtherNames

\* C3: the result is stem.py when no other entity has that name, otherwise
\* stem_k.py for the smallest k >= 2 that no other entity has; with a.py and
\* b.py in the collection the candidate 'a' gives a_2.py
C3_SmallestFreeSuffix ==
    Called =>
        LET stem == PyStem(rcall.filename)
        IN  /\ (stem \o ".py") \notin OtherNames => rcall.name = stem \o ".py"
            /\ (stem \o ".py") \in OtherNames =>
                   \E k \in 2..(Len(rcall.model) + 2) :
                       /\ rcall.name = Suffixed(stem, k)
                       /\ Suffixed(stem, k) \notin OtherNames
                       /\ \A j \in 2..(k - 1) : Suffixed(stem, j) \in OtherNames
            /\ (OtherNames = {"a.py", "b.py"} /\ rcall.filename = "a") =>
                   rcall.name = "a_2.py"

\* the scenario: a.py and b.py exist, 'a' is added
C3_Witness ==
    /\ Called
    /\ rcall.curr = NoScript
    /\ OtherNames = {"a.py", "b.py"}
    /\ rcall.filename = "a"
    /\ rcall.name = "a_2.py"

\* C4 as stated: the stem is the candidate without its extension, whatever
\* the extension is; the result is that stem, an optional _k, and '.py'
C4_StripsAnyExtension ==
    Called => IsNameOf(AnyExtensionStem(rcall.filename), rcall.name)

\* C4, amended: only a trailing '.py' is stripped from the candidate, the
\* stem is 'scratch' when nothing is left, and the result is that stem, an
\* optional _k, and one '.py'
C4_StripsPyOnly ==
    Called => IsNameOf(PyStem(rcall.filename), rcall.name)

\* a candidate with another extension keeps it; an empty stem is replaced
C4_Witness ==
    /\ Called
    /\ rcall.filename = "a.txt"
    /\ rcall.name = "a.txt.py"

-----------------------------------------------------------------------------
(* Properties of Script (SpecScript) *)

\* C8 as stated: setting the content of a Script whose missing flag is set
\* changes no file
C8_MissingSetterWritesNothing ==
    [][(last'.op = "Script.script"
            /\ HasFlag(last'.flags0, MissingFromFilesystem))
        => disk' = disk]_vars

\* C8, amended: setting the content of a Script whose missing flag is set
\* updates the content, writes it to the script's file and clears the flag;
\* only constructing a Script with the missing flag set writes no file
C8_MissingSetterWritesFile ==
    [][/\ (last'.op = "Script.script"
              /\ HasFlag(last'.flags0, MissingFromFilesystem))
          => /\ heap'[last'.s].script = last'.arg
             /\ disk' = FileWrite(disk, JoinPath(heap[last'.s].filename),
                                  last'.arg)
             /\ ~IsMissing(heap'[last'.s])
       /\ (last'.op = "Script.__init__"
              /\ HasFlag(last'.flags0, MissingFromFilesystem))
          => /\ disk' = disk
             /\ IsMissing(heap'[last'.s])]_vars

\* the content of a Missing script was set
C8_Witness ==
    /\ last.op = "Script.script"
    /\ HasFlag(last.flags0, MissingFromFilesystem)
    /\ Exists(disk, JoinPath(heap[last.s].filename))

-----------------------------------------------------------------------------
(* Properties of reload and restoreSaved (Spec) *)

\* C11: when the file of the selected script is gone, restoreSaved's
\* reload() returns False, sets the missing flag and leaves the content as
\* it was; the editor then shows that content and Restore is disabled
C11_FailedReloadKeepsContent ==
    [][\A w \in Widgets :
          (/\ last'.op = "restoreSaved"
           /\ last'.w = w
           /\ last'.s # NoScript
           /\ heap[last'.s].fullname # None
           /\ ~Exists(disk, heap[last'.s].fullname))
          => /\ ~last'.raised
             /\ last'.ret = FALSE
             /\ IsMissing(heap'[last'.s])
             /\ heap'[last'.s].script = heap[last'.s].script
             /\ editor_text(World, w)' = heap[last'.s].script
             /\ ~widgets'[w].restoreEnabled]_vars

\* "2" was saved, the file was deleted, restoreSaved found it gone
C11_Witness ==
    /\ last.op = "restoreSaved"
    /\ last.ret = FALSE
    /\ IsMissing(heap[last.s])
    /\ heap[last.s].script = "2"
    /\ editor_text(World, last.w) = "2"
    /\ ~widgets[last.w].restoreEnabled

-----------------------------------------------------------------------------
(* Properties of the filename setter (SpecScript) *)

\* C12: script.filename = name changes a file or emits scriptRenamed only
\* when the name differs and the script is not missing (then the file, if
\* there, is renamed and one scriptRenamed(old, new) is emitted); with the
\* same name nothing changes; for a missing script only the filename changes
C12_FilenameSetterFrame ==
    [][last'.op = "Script.filename" =>
        LET s == last'.s
            name == last'.arg
            obj == heap[s]
        IN  /\ (disk' # disk \/ last'.sent # <<>>)
                  => (name # obj.filename /\ ~IsMissing(obj))
            /\ name = obj.filename
                  => /\ disk' = disk
                     /\ heap' = heap
                     /\ last'.sent = <<>>
                     /\ ~last'.raised
            /\ (name # obj.filename /\ IsMissing(obj))
                  => /\ disk' = disk
                     /\ heap' = [heap EXCEPT ![s].filename = name]
                     /\ last'.sent = <<>>
                     /\ ~last'.raised
            /\ (/\ name # obj.filename
                /\ ~IsMissing(obj)
                /\ obj.fullname # None
                /\ Exists(disk, obj.fullname))
                  => /\ disk' = FileRename(disk, obj.fullname, JoinPath(name))
                     /\ last'.sent =
                            <<(<<"scriptRenamed", obj.filename, name>>)>>
                     /\ heap'[s].filename = name
                     /\ heap'[s].fullname = JoinPath(name)]_vars

\* a file was renamed and the event emitted
C12_Witness ==
    /\ last.op = "Script.filename"
    /\ last.sent # <<>>
    /\ last.pre # last.arg
    /\ Exists(disk, JoinPath(last.arg))
    /\ ~Exists(disk, JoinPath(last.pre))

C15_RefreshSetsModifiedTo ==
    [][last'.op = "Script.refresh" =>
        LET s == last'.s
            text == last'.arg[1]
            set_modified == last'.arg[2]
        IN  /\ text # heap[s].script
                  => /\ heap'[s].script = text
                     /\ IsModified(heap'[s]) = set_modified
            /\ text = heap[s].script
                  => /\ heap'[s].script = heap[s].script
                     /\ ~IsModified(heap'[s])
            /\ IsMissing(heap'[s]) = IsMissing(heap[s])
            /\ disk' = disk]_vars

\* C15, amended: after refresh(text, set_modified) with a text that differs
\* the content is text and the modified flag is set if set_modified is true
\* and otherwise as it was; with the same text the content stays and the
\* modified flag is clear; the missing flag, the names and the disk are
\* unchanged
C15_RefreshKeepsModified ==
    [][last'.op = "Script.refresh" =>
        LET s == last'.s
            text == last'.arg[1]
            set_modified == last'.arg[2]
        IN  /\ text # heap[s].script
                  => /\ heap'[s].script = text
                     /\ IsModified(heap'[s]) =
                            (set_modified \/ IsModified(heap[s]))
            /\ text = heap[s].script
                  => /\ heap'[s].script = heap[s].script
                     /\ ~IsModified(heap'[s])
            /\ IsMissing(heap'[s]) = IsMissing(heap[s])
            /\ heap'[s].filename = heap[s].filename
            /\ heap'[s].fullname = heap[s].fullname
            /\ disk' = disk]_vars

\* a modified script was refreshed with another text and set_modified False
C15_Witness ==
    /\ last.op = "Script.refresh"
    /\ last.arg[2] = FALSE
    /\ HasFlag(last.flags0, Modified)
    /\ IsModified(heap[last.s])
    /\ heap[last.s].script = last.arg[1]

-----------------------------------------------------------------------------
(* Properties of the signals between widgets (Spec) *)

\* C14: when a widget renames a script that is not missing and whose file
\* exists from old to new, then at the end of the rename every other widget
\* holds each entity it had under the name old under the name new, holds
\* no entity named old, and the file exists as new and not as old
C14_RenameReachesOthers ==
    [][(/\ last'.op = "setModelData"
        /\ ~IsMissing(heap[last'.s])
        /\ heap[last'.s].fullname # None
        /\ Exists(disk, heap[last'.s].fullname)
        /\ heap'[last'.s].filename # heap[last'.s].filename)
       => LET old == heap[last'.s].filename
              new == heap'[last'.s].filename
          IN  /\ \A w2 \in DOMAIN widgets \ {last'.w} :
                    /\ \A i \in 1..Len(widgets[w2].libraryList) :
                          heap[widgets[w2].libraryList[i]].filename = old
                          => /\ i <= Len(widgets'[w2].libraryList)
                             /\ widgets'[w2].libraryList[i] =
                                    widgets[w2].libraryList[i]
                             /\ heap'[widgets[w2].libraryList[i]].filename
                                    = new
                    /\ \A i \in 1..Len(widgets'[w2].libraryList) :
                          heap'[widgets'[w2].libraryList[i]].filename # old
              /\ Exists(disk', JoinPath(new))
              /\ ~Exists(disk', JoinPath(old))]_vars

-----------------------------------------------------------------------------
(* Properties of loading and adding (Spec) *)

\* the '.py' files of the scripts folder
ScriptFiles == {p \in Files(disk) : EndsWith(p, ".py")}

\* rows from..to of lib hold new Script objects, one per file of the
\* folder, neither modified nor missing, with the file's name and text
OnePerFile(lib, from, to) ==
    /\ to - from + 1 = Cardinality(ScriptFiles)
    /\ \A i \in from..to :
          /\ lib[i] \notin DOMAIN heap
          /\ heap'[lib[i]].flags = 0
          /\ JoinPath(heap'[lib[i]].filename) \in ScriptFiles
          /\ heap'[lib[i]].script =
                 FileRead(disk, JoinPath(heap'[lib[i]].filename))
          /\ \A j \in from..to :
                 heap'[lib[j]].filename = heap'[lib[i]].filename => j = i

C17_AddPersists ==
    [][last'.op = "onAddScript" =>
        LET w == last'.w
            lib == widgets'[w].libraryList
            new == lib[Len(lib)]
        IN  /\ lib = Append(widgets[w].libraryList, new)
            /\ new \notin DOMAIN heap
            /\ heap'[new].filename =
                   uniqueify_filename(heap, widgets[w].libraryList, NoScript,
                                      DEFAULT_FILENAME)
            /\ Exists(disk', JoinPath(heap'[new].filename))
            /\ disk'[JoinPath(heap'[new].filename)] = heap'[new].script
            /\ ~IsMissing(heap'[new])
            /\ widgets'[w].selected = Len(lib) - 1]_vars

\* C17, amended: onAddScript appends exactly one new Script named by the
\* resolver, with the empty text and flagged missing, writes nothing to
\* the scripts folder and leaves the new Script selected and in the editor
C17_AddIsNotPersisted ==
    [][last'.op = "onAddScript" =>
        LET w == last'.w
            lib == widgets'[w].libraryList
            new == lib[Len(lib)]
        IN  /\ lib = Append(widgets[w].libraryList, new)
            /\ new \notin DOMAIN heap
            /\ heap'[new] =
                   [script |-> "",
                    filename |-> uniqueify_filename(heap,
                                    widgets[w].libraryList, NoScript,
                                    DEFAULT_FILENAME),
                    fullname |-> None,
                    flags |-> MissingFromFilesystem]
            /\ disk' = disk
            /\ \A s \in DOMAIN heap : heap'[s] = heap[s]
            /\ widgets'[w].selected = Len(lib) - 1
            /\ widgets'[w].editorDoc = new]_vars

\* a script was added next to one of the default name
C17_Witness ==
    /\ last.op = "onAddScript"
    /\ heap[last.s].filename = "scratch_2.py"
    /\ IsMissing(heap[last.s])
    /\ SelectedScript(last.w) = last.s

-----------------------------------------------------------------------------
(* Properties of removing and saving with several widgets (Spec) *)

\* C18: removeScript of a script that is not flagged missing ends with the
\* entity out of the collection, its file deleted, and one scriptRemoved
\* carrying its filename emitted and handed to every other widget
C18_RemovePublishes ==
    (last.op = "removeScript"
        /\ ~HasFlag(last.flags0, MissingFromFilesystem))
    => LET filename == heap[last.s].filename
           lib == widgets[last.w].libraryList
       IN  /\ ~last.raised
           /\ \A i \in 1..Len(lib) : lib[i] # last.s
           /\ ~Exists(disk, JoinPath(filename))
           /\ last.sent = <<(<<"scriptRemoved", filename>>)>>
           /\ \A w2 \in DOMAIN widgets \ {last.w} :
                 \E k \in 1..Len(last.got) :
                     last.got[k] = <<"scriptRemoved", w2, filename>>

\* C19: when a widget removes a script and emits scriptRemoved, every
\* entity of that filename in another widget is, if that widget has no
\* cached document for it, gone from its collection, and otherwise still
\* at its row, flagged missing, with content and document as before
C19_RemovedDropsOrFlags ==
    [][(last'.op = "removeScript" /\ last'.sent # <<>>) =>
        \A w2 \in DOMAIN widgets \ {last'.w} :
            \A i \in 1..Len(widgets[w2].libraryList) :
                LET e == widgets[w2].libraryList[i]
                    lib == widgets'[w2].libraryList
                    docs == widgets[w2].cachedDocuments
                IN  heap[e].filename = heap[last'.s].filename =>
                      /\ e \notin DOMAIN docs
                            => \A j \in 1..Len(lib) : lib[j] # e
                      /\ e \in DOMAIN docs
                            => /\ i <= Len(lib)
                               /\ lib[i] = e
                               /\ IsMissing(heap'[e])
                               /\ heap'[e].script = heap[e].script
                               /\ widgets'[w2].cachedDocuments[e] = docs[e]
      ]_vars

\* the rows of widget w whose script is named filename
RowsNamed(w, filename) ==
    {i \in 1..Len(widgets[w].libraryList) :
        heap[widgets[w].libraryList[i]].filename = filename}

\* C20: when a widget has saved a script with filename f and content c,
\* every other widget holds exactly one entity named f that is not missing,
\* its content is c, and no widget holds two entities named f
C20_SavedReachesOthers ==
    (last.op = "commitChangesToLibrary" /\ last.s # NoScript)
    => LET f == heap[last.s].filename
           c == heap[last.s].script
       IN  /\ \A w2 \in DOMAIN widgets \ {last.w} :
                 \E i \in RowsNamed(w2, f) :
                     /\ ~IsMissing(heap[widgets[w2].libraryList[i]])
                     /\ heap[widgets[w2].libraryList[i]].script = c
                     /\ \A j \in RowsNamed(w2, f) :
                            ~IsMissing(heap[widgets[w2].libraryList[j]])
                            => j = i
           /\ \A w \in DOMAIN widgets : Cardinality(RowsNamed(w, f)) <= 1

-----------------------------------------------------------------------------
(* Properties of the document cache (Spec) *)

Documents(w) == widgets[w].cachedDocuments

\* C21: every call documentForScript(s) returns the document cached for s
\* when there is one, and the document it returns is the one cached for s
\* afterwards; a cached document stays the document of its script over
\* every operation; a widget has constructed exactly one document per
\* cached script; two distinct scripts never have the same document
C21_OneDocumentPerScript ==
    [][/\ \A k \in 1..Len(last'.docs) :
             \A w \in Widgets, s \in DOMAIN heap' :
                 (last'.docs[k][1] = w /\ last'.docs[k][2] = s) =>
                     LET doc == last'.docs[k][3]
                     IN  /\ (w \in DOMAIN widgets /\ s \in DOMAIN Documents(w))
                                => doc = Documents(w)[s].id
                         /\ s \in DOMAIN Documents(w)'
                         /\ Documents(w)'[s].id = doc
       /\ \A w \in DOMAIN widgets :
             \A s \in DOMAIN Documents(w) :
                 /\ s \in DOMAIN Documents(w)'
                 /\ Documents(w)'[s].id = Documents(w)[s].id
       /\ \A w \in DOMAIN widgets' :
             /\ widgets'[w].documents = Cardinality(DOMAIN Documents(w)')
             /\ \A s, t \in DOMAIN Documents(w)' :
                    s # t => Documents(w)'[s].id # Documents(w)'[t].id
       /\ \A w, v \in DOMAIN widgets' :
             w # v => \A s \in DOMAIN Documents(w)', t \in DOMAIN Documents(v)' :
                         Documents(w)'[s].id # Documents(v)'[t].id]_vars

\* a click asked for the document of a script that had one already, while
\* the widget holds the documents of two scripts of the same name and text
C21_Witness ==
    /\ last.op = "click"
    /\ \E k \in 1..Len(last.docs) :
          /\ last.docs[k][2] = last.s
          /\ last.docs[k][3] = Documents(last.w)[last.s].id
    /\ widgets[last.w].documents >= 2
    /\ \E t \in DOMAIN Documents(last.w) :
          /\ t # last.s
          /\ heap[t].script = heap[last.s].script

\* C22: a widget's document cache only grows: a script that has a cached
\* document has the same document after every operation, whether or not the
\* script is still in the collection, and a document that is not in the
\* editor keeps its text
C22_CacheOnlyGrows ==
    [][\A w \in DOMAIN widgets :
          \A s \in DOMAIN Documents(w) :
              /\ w \in DOMAIN widgets'
              /\ s \in DOMAIN Documents(w)'
              /\ Documents(w)'[s].id = Documents(w)[s].id
              /\ (widgets[w].editorDoc # s /\ widgets'[w].editorDoc # s)
                    => Documents(w)'[s] = Documents(w)[s]]_vars

\* the document of a script that left the collection, by a removal or by
\* a reload of the library, is still cached
C22_Witness ==
    /\ last.op \in {"removeScript", "reloadLibrary"}
    /\ \E s \in DOMAIN Documents(last.w) :
          /\ \A i \in 1..Len(Library(last.w)) : Library(last.w)[i] # s
          /\ ~IsMissing(heap[s])

-----------------------------------------------------------------------------
(* Properties of the publishing widget (Spec) *)

\* the slot calls of a log that a signal with these arguments led to in w
Deliveries(log, w, signal) ==
    {k \in 1..Len(log) :
        log[k] = <<signal[1], w>> \o SubSeq(signal, 2, Len(signal))}

\* how often w is connected in a list of connections
Connections(order, w) ==
    Cardinality({k \in 1..Len(order) : order[k] = w})

\* C23: when an operation of a widget emits scriptSaved or scriptRemoved,
\* the widget's own handler is not called for it, the handler of every other
\* widget connected to the signal is called once before the operation ends,
\* and at the end the widget is connected to the signal exactly once
C23_PublisherSkipsItself ==
    [][\A k \in 1..Len(last'.sent) :
          LET signal == last'.sent[k]
          IN  signal[1] \in {"scriptSaved", "scriptRemoved"} =>
                \A w \in Widgets :
                    /\ last'.w = w
                          => /\ Deliveries(last'.got, w, signal) = {}
                             /\ Connections(conn'[signal[1]], w) = 1
                    /\ (last'.w # w /\ Connections(conn[signal[1]], w) >= 1)
                          => /\ Cardinality(
                                    Deliveries(last'.got, w, signal)) = 1
                             /\ Connections(conn'[signal[1]], w) = 1]_vars

\* a save or a removal was handed to the other widget and not to the
\* widget they came from, which is connected last afterwards
C23_Witness ==
    /\ last.op \in {"commitChangesToLibrary", "removeScript"}
    /\ Len(last.sent) = 1
    /\ Len(last.got) = 1
    /\ last.got[1][2] # last.w
    /\ Len(conn[last.sent[1][1]]) = 2
    /\ conn[last.sent[1][1]][2] = last.w

-----------------------------------------------------------------------------
(* Properties of the flags (Spec) *)

\* C24 as stated: no Script of a collection has the modified flag and the
\* missing flag set together
C24_FlagsExclusive ==
    \A w \in Open :
        \A i \in 1..Len(Library(w)) :
            ~(IsModified(heap[Library(w)[i]]) /\ IsMissing(heap[Library(w)[i]]))

\* C24, amended: the two flags are independent bits.  Typing into the
\* document of the selected script, when that document was unmodified, sets
\* the modified flag and leaves the missing flag as it was, so a script
\* that was never saved becomes modified and missing at once; typing never
\* changes a missing flag
C24_EditKeepsMissing ==
    [][\A w \in Widgets :
          (last'.op = "edit" /\ last'.w = w) =>
              LET s == last'.s
              IN  /\ \A t \in DOMAIN heap :
                         IsMissing(heap'[t]) = IsMissing(heap[t])
                  /\ (/\ SelectedScript(w) = s
                      /\ ~Documents(w)[s].modified)
                        => heap'[s].flags = SetFlag(heap[s].flags, Modified)
      ]_vars

\* the user typed into a script that was never saved
C24_Witness ==
    /\ last.op = "edit"
    /\ last.flags0 = MissingFromFilesystem
    /\ SelectedScript(last.w) = last.s
    /\ heap[last.s].flags = MissingFromFilesystem + Modified

-----------------------------------------------------------------------------
(* Properties of Script without the scripts folder (SpecFolder) *)

\* C25: script.script = text while the scripts folder does not exist raises
\* nothing, sets the content to text and leaves the missing flag set
C25_SetterFailsIntoMissing ==
    [][(last'.op = "Script.script" /\ ~Exists(disk, SCRIPTS_FOLDER_PATH))
       => /\ ~last'.raised
          /\ heap'[last'.s].script = last'.arg
          /\ IsMissing(heap'[last'.s])]_vars

-----------------------------------------------------------------------------
(* Properties of importing a file (Spec) *)

\* C26: addScriptFromFile of a '.py' file that cannot be read or decoded
\* shows the load error for that file and changes nothing else: collection,
\* selection, document cache, every Script, the scripts folder and the
\* connections are as before, and no signal is emitted
C26_FailedImportChangesNothing ==
    [][\A w \in Widgets :
          (/\ last'.op = "addScriptFromFile"
           /\ last'.w = w
           /\ EndsWith(last'.arg.name, ".py")
           /\ last'.arg.content = Unreadable)
          => /\ ~last'.raised
             /\ widgets' = [widgets EXCEPT ![w].load_error = last'.arg.name]
             /\ heap' = heap
             /\ nextId' = nextId
             /\ disk' = disk
             /\ conn' = conn
             /\ last'.sent = <<>>]_vars

\* the load error is shown for the file that could not be read
C26_Witness ==
    /\ last.op = "addScriptFromFile"
    /\ last.arg.content = Unreadable
    /\ widgets[last.w].load_error = last.arg.name
    /\ Len(Library(last.w)) = 1

-----------------------------------------------------------------------------
(* Properties of the selection after a removal (Spec) *)

\* C28: after removeScript(index) the selected row is max(index - 1, 0) and
\* it is a row of the collection as it is after the removal
C28_RemoveSelectsPrevious ==
    [][\A w \in Widgets :
          (last'.op = "removeScript" /\ last'.w = w)
          => /\ widgets'[w].selected = Max(widgets[w].selected - 1, 0)
             /\ widgets'[w].selected < Len(widgets'[w].libraryList)]_vars

-----------------------------------------------------------------------------
(* Properties of a save that meets a script never saved (Spec) *)

\* C30: when a widget saves a script as f, every entity named f and
\* flagged missing that another widget holds stays in that widget's
\* collection with its content, gets a filename no other entity of the
\* collection has, and a new entity named f, not missing, with the saved
\* text is appended to that collection
C30_SavedKeepsScratch ==
    [][(last'.op = "commitChangesToLibrary" /\ last'.sent # <<>>) =>
        LET f == last'.sent[1][2]
            text == last'.sent[1][3]
        IN  \A w2 \in DOMAIN widgets :
                \A i \in 1..Len(widgets[w2].libraryList) :
                    LET e == widgets[w2].libraryList[i]
                        lib == widgets'[w2].libraryList
                    IN  (/\ last'.w # w2
                         /\ heap[e].filename = f
                         /\ IsMissing(heap[e]))
                        => /\ i <= Len(lib)
                           /\ lib[i] = e
                           /\ heap'[e].script = heap[e].script
                           /\ heap'[e].filename # f
                           /\ \A j \in 1..Len(lib) :
                                  j # i => heap'[lib[j]].filename
                                              # heap'[e].filename
                           /\ lib[Len(lib)] \notin DOMAIN heap
                           /\ heap'[lib[Len(lib)]].filename = f
                           /\ heap'[lib[Len(lib)]].script = text
                           /\ ~IsMissing(heap'[lib[Len(lib)]])]_vars

-----------------------------------------------------------------------------
(* Properties of the renaming widget (SpecRename) *)

\* C29: when a widget's rename emits scriptRenamed(old, new), the widget's
\* own handler is called with it, and at the end of the rename the widget's
\* collection is as before, its renamed entity is named new and every
\* other entity of its collection is as it was
C29_OwnRenameChangesNothing ==
    [][\A w \in Widgets :
          (last'.op = "setModelData" /\ last'.w = w /\ last'.sent # <<>>) =>
              LET old == last'.sent[1][2]
                  new == last'.sent[1][3]
                  lib == widgets[w].libraryList
              IN  /\ \E k \in 1..Len(last'.got) :
                         last'.got[k] = <<"scriptRenamed", w, old, new>>
                  /\ widgets'[w].libraryList = lib
                  /\ heap'[last'.s].filename = new
                  /\ \A i \in 1..Len(lib) :
                         lib[i] # last'.s => heap'[lib[i]] = heap[lib[i]]]_vars

-----------------------------------------------------------------------------
(* Properties of the stored settings (SpecSession) *)

\* the entities of widget w's collection that are flagged missing, without
\* the selected one, as (content, filename) pairs
OtherScratch(w) ==
    {<<heap[Library(w)[i]].script, heap[Library(w)[i]].filename>> :
        i \in {j \in 1..Len(Library(w)) :
                  /\ IsMissing(heap[Library(w)[j]])
                  /\ j - 1 # widgets[w].selected}}

\* C27: when a widget with a selected script is closed and opened again
\* over the same folder, _saveState stores the editor's text with the
\* selected script's filename and the (content, filename) pairs of exactly
\* the other scripts flagged missing; afterwards the selected script has
\* the stored text, and for every stored pair the collection holds a script
\* flagged missing with that content and that filename
C27_SettingsRoundTrip ==
    [][\A w \in Widgets :
          (last'.op = "reopen" /\ last'.w = w /\ widgets[w].selected # NoRow)
          => LET settings == last'.arg
                 pairs == settings.other_scratch_scripts
                 lib == widgets'[w].libraryList
             IN  /\ ~last'.raised
                 /\ settings.current_script =
                        <<editor_text(World, w), heap[SelectedScript(w)].filename>>
                 /\ {pairs[k] : k \in 1..Len(pairs)} = OtherScratch(w)
                 /\ widgets'[w].selected \in 0..(Len(lib) - 1)
                 /\ heap'[lib[widgets'[w].selected + 1]].script =
                        settings.current_script[1]
                 /\ \A k \in 1..Len(pairs) :
                        \E i \in 1..Len(lib) :
                            /\ IsMissing(heap'[lib[i]])
                            /\ heap'[lib[i]].script = pairs[k][1]
                            /\ heap'[lib[i]].filename = pairs[k][2]]_vars


-----------------------------------------------------------------------------
(* Properties of the removal of a script never saved (Spec) *)

\* C31: removeScript on a script flagged missing deletes no file and emits
\* no scriptRemoved: the scripts folder, the connections and every other
\* widget are as before
C31_MissingRemovalIsLocal ==
    [][\A w \in Widgets, s \in DOMAIN heap :
          (/\ last'.op = "removeScript"
           /\ last'.w = w
           /\ last'.s = s
           /\ IsMissing(heap[s]))
          => /\ ~last'.raised
             /\ disk' = disk
             /\ conn' = conn
             /\ last'.sent = <<>>
             /\ last'.got = <<>>
             /\ \A w2 \in DOMAIN widgets \ {w} : widgets'[w2] = widgets[w2]
             /\ \A e \in DOMAIN heap \ {s} : heap'[e] = heap[e]]_vars

\* a script flagged missing was removed while another widget lists a script
\* of the same filename that is not flagged missing
C31_Witness ==
    /\ last.op = "removeScript"
    /\ ~last.raised
    /\ IsMissing(heap[last.s])
    /\ \E w2 \in DOMAIN widgets \ {last.w} :
        \E i \in 1..Len(widgets[w2].libraryList) :
            LET e == widgets[w2].libraryList[i]
            IN  /\ heap[e].filename = heap[last.s].filename
                /\ ~IsMissing(heap[e])


-----------------------------------------------------------------------------
(* Properties of the notification queue (SpecNotify) *)

Displayed == {n \in Constructed : notifs[n].visible}

\* C32: at most one notification is displayed; while notification_queue is
\* not empty the displayed one is its first element, and every other
\* notification, queued or not, is hidden
C32_FirstIsDisplayed ==
    /\ Cardinality(Displayed) <= 1
    /\ notification_queue # <<>> => Displayed = {notification_queue[1]}
    /\ \A i \in 2..Len(notification_queue) :
           ~notifs[notification_queue[i]].visible

\* three notifications are queued, a button was clicked, and the first of
\* the queue is the one displayed
C32_Witness ==
    /\ Len(notification_queue) >= 2
    /\ last.op = "clicked"
    /\ Len(last.pre) = 3
    /\ notifs[notification_queue[1]].visible


Without(q, n) == SelectSeq(q, LAMBDA m : m # n)

\* C33: a click on a button of the displayed notification takes exactly that
\* notification out of notification_queue and hides it; the others stay
\* queued in their order, and the first of them is then displayed
C33_ClickedLeavesQueue ==
    [][\A n \in Notifications :
          (last'.op = "clicked" /\ last'.w = n)
          => /\ notification_queue' = Without(notification_queue, n)
             /\ ~notifs'[n].visible
             /\ notification_queue' # <<>>
                    => notifs'[notification_queue'[1]].visible]_vars


\* C34: a notification leaves notification_queue only after it was
\* displayed, and show() never queues a notification a second time
C34_QueuedIsDisplayedFirst ==
    [][/\ \A n \in Constructed :
              (InQueue(notification_queue, n)
               /\ ~InQueue(notification_queue', n))
              => notifs[n].wasDisplayed
       /\ \A i, j \in 1..Len(notification_queue') :
              i # j => notification_queue'[i] # notification_queue'[j]]_vars


-----------------------------------------------------------------------------
(* Properties of the message widget's buttons (SpecButtons) *)

\* C35: after setStandardButtons(b), standardButtons() is b, whatever
\* buttons the widget had before (so also after a second call with b)
C35_ButtonsAreThoseSet ==
    last.op = "setStandardButtons"
        => standardButtons(notifs[TheMessage]._buttons) = last.arg


-----------------------------------------------------------------------------
(* Properties of the outputs of a script run (SpecOutputs) *)

\* the variable a signal is read from and the type it must have
VarOf(signal) ==
    IF signal = "data" /\ ~fcall.orangeDataTablesEnabled
    THEN [name |-> "out_df", type |-> "DataFrame"]
    ELSE [name |-> "out_" \o signal, type |-> OutputType(signal)]

Present(signal) == VarOf(signal).name \in DOMAIN fcall.out_vars

WellTyped(signal) ==
    /\ Present(signal)
    /\ VarOf(signal).type \in Bases(fcall.out_vars[VarOf(signal).name].class)

\* C36: a call of receive_outputs sends one value on each of data, learner,
\* classifier and object, in this order: the variable out_<name> (out_df,
\* as a table, for data without native tables) when it is present and of
\* the required type, None otherwise; a present variable of another type
\* also raises illegal_var_type for its name
C36_OneValuePerOutput ==
    fcall.op = "receive_outputs" =>
        /\ Len(fcall.sent) = 4
        /\ \A k \in 1..4 :
            LET signal == signal_names[k]
                var == fcall.out_vars[VarOf(signal).name]
            IN  /\ fcall.sent[k][1] = signal
                /\ WellTyped(signal) =>
                       fcall.sent[k][2] =
                           IF VarOf(signal).name = "out_df"
                           THEN [class |-> "Table", frame |-> var]
                           ELSE var
                /\ ~WellTyped(signal) => fcall.sent[k][2] = PyNone
                /\ (Present(signal) /\ ~WellTyped(signal)) =>
                       \E i \in 1..Len(fcall.warnings) :
                           fcall.warnings[i][1] = VarOf(signal).name

\* a data frame was sent as a table, a learner of a derived class was sent,
\* a table left in out_classifier raised the warning, and out_object was
\* not set
C36_Witness ==
    /\ fcall.op = "receive_outputs"
    /\ ~fcall.orangeDataTablesEnabled
    /\ fcall.sent[1][2] = [class |-> "Table", frame |-> Value("DataFrame")]
    /\ fcall.sent[2][2] = Value("TreeLearner")
    /\ "out_classifier" \in DOMAIN fcall.out_vars
    /\ fcall.out_vars["out_classifier"] = Value("Table")
    /\ fcall.sent[3][2] = PyNone
    /\ fcall.warnings = <<<<"out_classifier", "Model", "Table">>>>
    /\ "out_object" \notin DOMAIN fcall.out_vars


-----------------------------------------------------------------------------
(* Properties of the signature label (SpecSignature) *)

\* the names shown for the inputs that have values, in order
RECURSIVE ShownInputs(_)
ShownInputs(k) ==
    IF k > Len(signal_names) THEN <<>>
    ELSE LET name == IF signal_names[k] = "data"
                        /\ ~fcall.orangeDataTablesEnabled
                     THEN "df" ELSE signal_names[k]
         IN  (IF fcall.counts[k] = 0 THEN <<>>
              ELSE IF fcall.counts[k] = 1 THEN <<"in_" \o name>>
              ELSE <<"in_" \o name \o "s">>)
             \o ShownInputs(k + 1)

RECURSIVE CommaSeparated(_)
CommaSeparated(names) ==
    IF names = <<>> THEN ""
    ELSE IF Len(names) = 1 THEN names[1]
    ELSE names[1] \o ", " \o CommaSeparated(Tail(names))

\* C37: the label is prefix, then the comma-separated in_<name> (one value)
\* or in_<name>s (several) of exactly the inputs that have values, in
\* order, then affix, also when no input has a value
C37_SignatureText ==
    fcall.op = "update_signal_text" =>
        fcall.text = prefix \o CommaSeparated(ShownInputs(1)) \o affix


-----------------------------------------------------------------------------
(* Properties of the lift curve (SpecLift) *)

\* C38: with the default arguments lift_curve is handed every row of
\* results.actual and of the classifier's probabilities for the target, and
\* the curve is empty exactly when the rows hold no instance of the target
\* class or only instances of it
C38_CurveOfAllRows ==
    fcall.op = "liftCurve_from_results" =>
        LET actual == fcall.results.actual
            targets == {i \in 1..Len(actual) : actual[i] = fcall.target}
        IN  /\ fcall.ytrue = actual
            /\ Len(fcall.ypred) = Len(actual)
            /\ \A i \in 1..Len(actual) :
                   fcall.ypred[i] =
                       IF fcall.target = 1
                       THEN fcall.results.probabilities[i]
                       ELSE 10 - fcall.results.probabilities[i]
            /\ fcall.empty <=> (targets = {} \/ targets = 1..Len(actual))

====
